---- MODULE Spec2Model ----
(***************************************************************************)
(* SyncBoard knowledge bank: the request handlers of backend/main.py over  *)
(* the shared in-memory state (vector store, documents, metadata, cluster  *)
(* registry, storage_lock), run by one asyncio event loop.  A handler runs *)
(* without interruption from one suspension point (a contended lock        *)
(* acquisition, the awaited concept extraction) to the next, so each       *)
(* action below is one such uninterrupted stretch of a handler.            *)
(***************************************************************************)
EXTENDS Integers, Sequences, FiniteSets, TLC

(* ------------------------------ bounds --------------------------------- *)
\* number of upload requests that may be in progress together
MaxReqs == 2
\* add_document stores at most this many documents in a run
MaxUploads == 2
\* add_document is called at most this many times on the index on its own
MaxIssued == 3
\* number of documents of a library that is searched
MaxLibrary == 3
\* number of clusters of a registry handed to the ClusteringEngine on its own
MaxRegistry == 2
\* the clock readings at which tokens are issued and presented
MaxNow == 4
\* TOKEN_EXPIRE_MINUTES, in clock readings
TokenExpireMinutes == 2
\* the length of the sample of a content that is hashed and sent (2000 in the code)
SampleSize == 2

(* --------------------------- program constants ------------------------- *)
\* Optional[int] = None (DocumentMetadata.cluster_id, a request's doc_id)
None == -1
\* stop_after_attempt(3) of _call_openai_with_retry
MaxAttempts == 3
\* search_full_content: the largest top_k accepted, and what replaces others
MaxTopK == 50
DefaultTopK == 10
\* number of concept names kept as primary_concepts
TopN == 5
\* eligibility threshold of the concept-overlap ratio, in tenths (0.3)
OverlapThresholdTenths == 3

Reqs == 1..MaxReqs
DocIds == 0..(MaxUploads - 1)
\* every upload creates at most one cluster; the last id names none
ClusterIds == 1..(MaxUploads + 1)

(* ------------------------------ strings -------------------------------- *)
\* A string is a sequence of characters; these are the characters used.
IsSpace(ch) == ch \in {" ", "\n"}

\* str.lower() on one character
LowerChar(ch) ==
    CASE ch = "A" -> "a"
      [] ch = "B" -> "b"
      [] ch = "D" -> "d"
      [] ch = "G" -> "g"
      [] OTHER -> ch

\* str.lower()
Lower(s) == [i \in 1..Len(s) |-> LowerChar(s[i])]

RECURSIVE LStrip(_)
LStrip(s) == IF s # <<>> /\ IsSpace(Head(s)) THEN LStrip(Tail(s)) ELSE s

RECURSIVE RStrip(_)
RStrip(s) ==
    IF s # <<>> /\ IsSpace(s[Len(s)]) THEN RStrip(SubSeq(s, 1, Len(s) - 1)) ELSE s

\* str.strip()
Strip(s) == RStrip(LStrip(s))

\* the mutant of IsBlank that forgets whitespace-only content
IsBlankNoStrip(text) == text = <<>>

\* `not req.content or not req.content.strip()`
IsBlank(text) == text = <<>> \/ Strip(text) = <<>>

\* request bodies of upload_text
Texts == { <<>>, <<" ", "\n">>, <<" ", "a">> }
\* what download_url / ingest_upload_file may return
IngestTexts == { <<>>, <<" ", "a">> }
\* full_content of an image upload always ends in "Image metadata: {...}"
ImageText == <<"i", "m">>

\* cluster names
nDocker   == <<"D", "o">>
nDockerLc == <<"d", "o">>
nGeneral  == <<"G", "e">>

\* concept names
cDocker   == <<"d", "k">>
cDockerUc == <<"D", "k">>
cCompose  == <<"c", "p">>
cKube     == <<"k", "8">>
cPython   == <<"p", "y">>
cGit      == <<"g", "t">>
cRust     == <<"r", "s">>

SeqToSet(s) == {s[i] : i \in 1..Len(s)}

Max(S) == CHOOSE x \in S : \A y \in S : y <= x

(* --------------------- VectorStore (vector_store.py) ------------------- *)
\* The store maps each live doc_id to its raw text.
\* the mutant of NextId that counts the stored documents
NextIdCount(store) == Cardinality(DOMAIN store)

\* id handed to the next document: one plus the largest live id, 0 if empty
NextId(store) == IF DOMAIN store = {} THEN 0 ELSE Max(DOMAIN store) + 1

\* add_document rejects empty / blank text before any mutation (InvalidInput)
AddRejects(text) == Strip(text) = <<>>

\* the store after add_document(text) has stored text under NextId(store)
AddDocument(store, text) ==
    [d \in DOMAIN store \cup {NextId(store)} |->
        IF d = NextId(store) THEN text ELSE store[d]]

\* remove_document: deletes the entry, a no-op on an unknown id
RemoveDocument(store, doc_id) ==
    [d \in DOMAIN store \ {doc_id} |-> store[d]]

\* tokenizes: case-fold and split on whitespace; the words of the texts used
\* here are single letters
RECURSIVE Tokens(_)
Tokens(text) ==
    IF text = <<>> THEN <<>>
    ELSE IF IsSpace(Head(text)) THEN Tokens(Tail(text))
    ELSE <<LowerChar(Head(text))>> \o Tokens(Tail(text))

Terms(text) == SeqToSet(Tokens(text))

\* raw term frequency of term t in a text
TermFrequency(text, t) == Cardinality({i \in 1..Len(Tokens(text)) : Tokens(text)[i] = t})

\* the vocabulary of the texts indexed here
IndexTerms == {"a", "b"}
\* texts handed to add_document on the index: blank ones and one-word ones
IndexTexts == { <<>>, <<" ">>, <<"a">>, <<"B">>, <<"b", " ">> }

\* The whole index: texts (doc_id -> raw text), vectors (doc_id -> what fixes
\* the tf * idf weight of each of its terms: tf, and N and df at insertion
\* time) and df (term -> number of stored documents holding it).
EmptyIndex == [texts |-> <<>>, vectors |-> <<>>, df |-> [t \in IndexTerms |-> 0]]

\* the mutant of IndexRemove that decrements the counts of an unknown id too
IndexRemoveUnchecked(ix, doc_id) ==
    [texts |-> RemoveDocument(ix.texts, doc_id),
     vectors |-> [d \in DOMAIN ix.vectors \ {doc_id} |-> ix.vectors[d]],
     df |-> [t \in IndexTerms |-> IF ix.df[t] > 0 THEN ix.df[t] - 1 ELSE 0]]

\* the index after add_document(text), text not blank
IndexAdd(ix, text) ==
    LET df1 == [t \in IndexTerms |-> ix.df[t] + (IF t \in Terms(text) THEN 1 ELSE 0)]
        n1  == Cardinality(DOMAIN ix.texts) + 1
    IN  [texts |-> AddDocument(ix.texts, text),
         vectors |-> [d \in DOMAIN ix.vectors \cup {NextId(ix.texts)} |->
                        IF d = NextId(ix.texts)
                        THEN [t \in Terms(text) |->
                                [tf |-> TermFrequency(text, t), n |-> n1, df |-> df1[t]]]
                        ELSE ix.vectors[d]],
         df |-> df1]

\* the index after remove_document(doc_id)
IndexRemove(ix, doc_id) ==
    IF doc_id \notin DOMAIN ix.texts THEN ix
    ELSE [texts |-> RemoveDocument(ix.texts, doc_id),
          vectors |-> [d \in DOMAIN ix.vectors \ {doc_id} |-> ix.vectors[d]],
          df |-> [t \in IndexTerms |->
                    ix.df[t] - (IF t \in Terms(ix.texts[doc_id]) THEN 1 ELSE 0)]]

\* search: d's cosine similarity to the query is positive.  The documents
\* searched hold one word each, so that cos(q, d) is the weight of d's word
\* in the query vector divided by the norm of the query vector.
Hits(ix, query, d) == Terms(ix.texts[d]) \subseteq Terms(query)

\* the word of a one-word document
DocTerm(ix, d) == CHOOSE t \in Terms(ix.texts[d]) : TRUE

\* search: a scores higher than b.  The words of a query are distinct, so
\* the weight of word t in the query vector is idf(t) = ln((N+1)/(df[t]+1)) + 1
\* with the current counts, which is >= 1 and decreases as df[t] grows.
ScoreGreater(ix, query, a, b) ==
    /\ Hits(ix, query, a)
    /\ \/ ~Hits(ix, query, b)
       \/ ix.df[DocTerm(ix, a)] < ix.df[DocTerm(ix, b)]

\* the candidates by descending score, ties by ascending doc_id
RECURSIVE Ranked(_, _, _)
Ranked(ix, query, cands) ==
    IF cands = {} THEN <<>>
    ELSE LET best == CHOOSE d \in cands : \A o \in cands \ {d} :
                        \/ ScoreGreater(ix, query, d, o)
                        \/ ~ScoreGreater(ix, query, o, d) /\ d < o
         IN  <<best>> \o Ranked(ix, query, cands \ {best})

\* search(query, top_k, allowed_doc_ids): the doc_ids of the results, in order
Search(ix, query, top_k, allowed_doc_ids) ==
    IF Terms(query) = {} \/ DOMAIN ix.texts = {} THEN <<>>
    ELSE LET r == Ranked(ix, query, allowed_doc_ids \cap DOMAIN ix.texts)
         IN  SubSeq(r, 1, IF top_k < Len(r) THEN top_k ELSE Len(r))

(* ------------------- ClusteringEngine (clustering.py) ------------------ *)
\* a concept is [name, confidence (percent)]; a cluster is
\* [id, name, primary_concepts, doc_ids, skill_level, doc_count]
LowerNames(names) == {Lower(n) : n \in names}
DocConceptNames(concepts) == LowerNames({concepts[i].name : i \in 1..Len(concepts)})
ClusterConceptNames(cl) == LowerNames(SeqToSet(cl.primary_concepts))

OverlapInter(concepts, cl) ==
    Cardinality(DocConceptNames(concepts) \cap ClusterConceptNames(cl))
OverlapUnion(concepts, cl) ==
    Cardinality(DocConceptNames(concepts) \cup ClusterConceptNames(cl))

NameMatches(suggested, cl) == Lower(cl.name) = Lower(suggested)

\* overlap ratio >= 0.3, the ratio of two empty sets being 0
OverlapEligible(concepts, cl) ==
    /\ OverlapUnion(concepts, cl) > 0
    /\ 10 * OverlapInter(concepts, cl) >= OverlapThresholdTenths * OverlapUnion(concepts, cl)

Eligible(concepts, suggested, cl) ==
    NameMatches(suggested, cl) \/ OverlapEligible(concepts, cl)

\* ratio(a) > ratio(b), by cross-multiplication (an empty union counts as 1)
RatioGreater(concepts, a, b) ==
    LET ua == IF OverlapUnion(concepts, a) = 0 THEN 1 ELSE OverlapUnion(concepts, a)
        ub == IF OverlapUnion(concepts, b) = 0 THEN 1 ELSE OverlapUnion(concepts, b)
    IN  OverlapInter(concepts, a) * ub > OverlapInter(concepts, b) * ua

\* a is selected before b: higher ratio, then larger doc_count, then lower id
Precedes(concepts, a, b) ==
    \/ RatioGreater(concepts, a, b)
    \/ /\ ~RatioGreater(concepts, b, a)
       /\ \/ a.doc_count > b.doc_count
          \/ a.doc_count = b.doc_count /\ a.id < b.id

\* the mutant of FindBestCluster that takes the eligible cluster of lowest id
FindBestClusterLowestId(concepts, suggested, existing) ==
    LET elig == {c \in DOMAIN existing : Eligible(concepts, suggested, existing[c])}
    IN  IF elig = {} THEN None ELSE CHOOSE c \in elig : \A o \in elig : c <= o

FindBestCluster(concepts, suggested, existing) ==
    LET elig == {c \in DOMAIN existing : Eligible(concepts, suggested, existing[c])}
    IN  IF elig = {} THEN None
        ELSE CHOOSE c \in elig :
                \A o \in elig \ {c} : Precedes(concepts, existing[c], existing[o])

\* index of the highest-confidence concept, the earliest among equals
BestIndex(concepts) ==
    CHOOSE i \in 1..Len(concepts) :
        \A j \in 1..Len(concepts) :
            \/ concepts[i].confidence > concepts[j].confidence
            \/ concepts[i].confidence = concepts[j].confidence /\ i <= j

RemoveAt(s, i) == SubSeq(s, 1, i - 1) \o SubSeq(s, i + 1, Len(s))

\* names of the (at most) n highest-confidence concepts, best first
RECURSIVE TopConcepts(_, _)
TopConcepts(concepts, n) ==
    IF n = 0 \/ concepts = <<>> THEN <<>>
    ELSE <<concepts[BestIndex(concepts)].name>>
            \o TopConcepts(RemoveAt(concepts, BestIndex(concepts)), n - 1)

NextClusterId(existing) ==
    IF DOMAIN existing = {} THEN 1 ELSE Max(DOMAIN existing) + 1

\* the mutant of CreateCluster that keeps every concept name, in the order given
CreateClusterAllConcepts(doc_id, name, concepts, skill_level, existing) ==
    [c \in DOMAIN existing \cup {NextClusterId(existing)} |->
        IF c = NextClusterId(existing)
        THEN [id |-> c, name |-> name,
              primary_concepts |-> [i \in 1..Len(concepts) |-> concepts[i].name],
              doc_ids |-> <<doc_id>>, skill_level |-> skill_level, doc_count |-> 1]
        ELSE existing[c]]

\* the registry after create_cluster; the new id is NextClusterId(existing)
CreateCluster(doc_id, name, concepts, skill_level, existing) ==
    [c \in DOMAIN existing \cup {NextClusterId(existing)} |->
        IF c = NextClusterId(existing)
        THEN [id |-> c, name |-> name,
              primary_concepts |-> TopConcepts(concepts, TopN),
              doc_ids |-> <<doc_id>>, skill_level |-> skill_level, doc_count |-> 1]
        ELSE existing[c]]

\* the registry after add_to_cluster: appends only if absent
AddToCluster(cluster_id, doc_id, existing) ==
    IF cluster_id \notin DOMAIN existing
       \/ doc_id \in SeqToSet(existing[cluster_id].doc_ids)
    THEN existing
    ELSE [existing EXCEPT
            ![cluster_id].doc_ids = Append(@, doc_id),
            ![cluster_id].doc_count = Len(existing[cluster_id].doc_ids) + 1]

(* ---------------------- extraction (concept_extractor.py) -------------- *)
\* what extract returns when every attempt failed or the reply is no JSON
Fallback ==
    [concepts |-> <<>>, skill_level |-> "unknown",
     suggested_cluster |-> nGeneral, valid |-> TRUE]

\* The replies of the language model considered: valid says whether every
\* concept record passes Concept(**c).
ExtractionResults ==
    { Fallback,
      [concepts |-> <<[name |-> cDocker, confidence |-> 90]>>,
       skill_level |-> "beginner", suggested_cluster |-> nDocker, valid |-> TRUE],
      [concepts |-> <<[name |-> cDockerUc, confidence |-> 80],
                      [name |-> cCompose, confidence |-> 90]>>,
       skill_level |-> "beginner", suggested_cluster |-> nDockerLc, valid |-> TRUE],
      [concepts |-> <<[name |-> cDocker, confidence |-> 50]>>,
       skill_level |-> "beginner", suggested_cluster |-> nDocker, valid |-> FALSE] }

(* ------------------------------- state --------------------------------- *)
VARIABLES
    vector_store,   \* VectorStore: live doc_id -> text
    documents,      \* documents: doc_id -> text
    metadata,       \* metadata: doc_id -> [skill_level, cluster_id]
    clusters,       \* clusters: cluster_id -> Cluster
    storage_lock,   \* 0 when free, else the upload request holding it
    added,          \* how many documents add_document has stored so far
    saved,          \* what the last save_storage_to_db call persisted
    pc,             \* where each upload request stands
    req,            \* each upload request's locals
    last,           \* the handler step taken last and what it answered
    index,          \* a VectorStore on its own: [texts, vectors, df]
    issued,         \* the ids add_document has returned on index, in order
    call            \* the last call made on a component, with what it returned

\* the state the request handlers share
handler_vars == <<vector_store, documents, metadata, clusters, storage_lock, added,
                  saved, pc, req, last>>
\* the components exercised on their own
unit_vars == <<index, issued, call>>

vars == <<handler_vars, unit_vars>>

Kinds == {"text", "url", "file", "image"}
IdleReq == [kind |-> "none", text |-> <<>>, doc_id |-> None, attempt |-> 0]

Put(f, k, v) == [x \in DOMAIN f \cup {k} |-> IF x = k THEN v ELSE f[x]]
Drop(f, k) == [x \in DOMAIN f \ {k} |-> f[x]]

\* list.remove(x): drops the first occurrence
RECURSIVE RemoveFirst(_, _)
RemoveFirst(s, x) ==
    IF s = <<>> THEN <<>>
    ELSE IF Head(s) = x THEN Tail(s)
    ELSE <<Head(s)>> \o RemoveFirst(Tail(s), x)

Snapshot(docs, meta, cls) == [documents |-> docs, metadata |-> meta, clusters |-> cls]

\* op: the handler; status: the HTTP status answered, 0 while the request
\* goes on; detail: why; doc_id, cluster_id: the ids a successful upload
\* returns, or the ids of a reassignment (None elsewhere)
Event(op, status, detail, doc_id, cluster_id) ==
    [op |-> op, status |-> status, detail |-> detail,
     doc_id |-> doc_id, cluster_id |-> cluster_id]

\* the handlers' state at startup, nothing stored
InitHandlers ==
    /\ vector_store = <<>>
    /\ documents = <<>>
    /\ metadata = <<>>
    /\ clusters = <<>>
    /\ storage_lock = 0
    /\ added = 0
    /\ saved = Snapshot(<<>>, <<>>, <<>>)
    /\ pc = [r \in Reqs |-> "idle"]
    /\ req = [r \in Reqs |-> IdleReq]
    /\ last = Event("startup", 200, "ok", None, None)

Init ==
    /\ InitHandlers
    /\ index = EmptyIndex
    /\ issued = <<>>
    /\ call = [op |-> "none"]

(* --------------------------- clustering helper ------------------------- *)
\* the mutant of FindOrCreateCluster that returns the cluster found without
\* adding the document to it
FindOrCreateClusterNoAdd(doc_id, suggested_cluster, concepts, meta, existing) ==
    LET found == FindBestCluster(concepts, suggested_cluster, existing)
    IN  IF found # None
        THEN [clusters |-> existing, cluster_id |-> found]
        ELSE [clusters |-> CreateCluster(doc_id, suggested_cluster, concepts,
                                         meta[doc_id].skill_level, existing),
              cluster_id |-> NextClusterId(existing)]

\* the mutant of FindOrCreateCluster that never looks for an existing cluster
FindOrCreateClusterAlwaysNew(doc_id, suggested_cluster, concepts, meta, existing) ==
    [clusters |-> CreateCluster(doc_id, suggested_cluster, concepts,
                                meta[doc_id].skill_level, existing),
     cluster_id |-> NextClusterId(existing)]

\* find_or_create_cluster: the registry afterwards and the id returned
FindOrCreateCluster(doc_id, suggested_cluster, concepts, meta, existing) ==
    LET found == FindBestCluster(concepts, suggested_cluster, existing)
    IN  IF found # None
        THEN [clusters |-> AddToCluster(found, doc_id, existing), cluster_id |-> found]
        ELSE [clusters |-> CreateCluster(doc_id, suggested_cluster, concepts,
                                         meta[doc_id].skill_level, existing),
              cluster_id |-> NextClusterId(existing)]

(* ------------------------------ uploads -------------------------------- *)
\* What a handler answers before it asks for storage_lock: 200 to go on.
\* ingest_ok: download_url / b64decode, the size check and ingest_upload_file
\* raised nothing.
PreLockStatus(kind, text, ingest_ok) ==
    CASE kind = "text"  -> IF IsBlank(text) THEN 400 ELSE 200
      [] kind = "url"   -> IF ingest_ok THEN 200 ELSE 500
      [] kind = "file"  -> IF ingest_ok THEN 200 ELSE 500
      [] kind = "image" -> IF ingest_ok THEN 200 ELSE 400

\* the texts a handler of this kind may hold before it asks for the lock
BodiesOf(kind) ==
    CASE kind = "text"  -> Texts
      [] kind = "image" -> {ImageText}
      [] OTHER -> IngestTexts


\* requests that will still call add_document
PendingAdds == {r \in Reqs : pc[r] # "idle" /\ req[r].doc_id = None}

\* The handler runs up to `async with storage_lock`.
UploadStart(r, kind, text, ingest_ok) ==
    /\ pc[r] = "idle"
    /\ added + Cardinality(PendingAdds) < MaxUploads
    /\ IF PreLockStatus(kind, text, ingest_ok) = 200
       THEN /\ pc' = [pc EXCEPT ![r] = "lock"]
            /\ req' = [req EXCEPT ![r] = [IdleReq EXCEPT !.kind = kind, !.text = text]]
            /\ last' = Event("upload_" \o kind, 0, "received", None, None)
       ELSE /\ UNCHANGED <<pc, req>>
            /\ last' = Event("upload_" \o kind, PreLockStatus(kind, text, ingest_ok),
                             "rejected", None, None)
    /\ UNCHANGED <<vector_store, documents, metadata, clusters, storage_lock, added, saved>>
    /\ UNCHANGED unit_vars

\* storage_lock is acquired and the handler runs up to
\* `await concept_extractor.extract`; upload_image has by then added its
\* document to the vector store and to documents.
AcquireLock(r) ==
    /\ pc[r] = "lock"
    /\ storage_lock = 0
    /\ storage_lock' = r
    /\ pc' = [pc EXCEPT ![r] = "extract"]
    /\ IF req[r].kind = "image"
       THEN /\ vector_store' = AddDocument(vector_store, req[r].text)
            /\ documents' = Put(documents, NextId(vector_store), req[r].text)
            /\ added' = added + 1
            /\ req' = [req EXCEPT ![r].doc_id = NextId(vector_store), ![r].attempt = 1]
            /\ last' = Event("upload_image", 0, "extracting", None, None)
       ELSE /\ req' = [req EXCEPT ![r].attempt = 1]
            /\ last' = Event("upload_" \o req[r].kind, 0, "extracting", None, None)
            /\ UNCHANGED <<vector_store, documents, added>>
    /\ UNCHANGED <<metadata, clusters, saved>>
    /\ UNCHANGED unit_vars

\* An attempt of _call_openai_with_retry failed and is tried again.
ExtractRetry(r) ==
    /\ pc[r] = "extract"
    /\ req[r].attempt < MaxAttempts
    /\ req' = [req EXCEPT ![r].attempt = @ + 1]
    /\ last' = Event("upload_" \o req[r].kind, 0, "retrying", None, None)
    /\ UNCHANGED <<vector_store, documents, metadata, clusters, storage_lock, added,
                   saved, pc>>
    /\ UNCHANGED unit_vars

\* the mutant of UploadFinish that leaves the lock held when the handler raises
UploadFinishKeepsLockOnError(r, res) ==
    /\ pc[r] = "extract"
    /\ LET kind   == req[r].kind
           op     == "upload_" \o kind
           adds   == kind # "image"
           doc_id == IF adds THEN NextId(vector_store) ELSE req[r].doc_id
           store1 == IF adds THEN AddDocument(vector_store, req[r].text) ELSE vector_store
           docs1  == IF adds THEN Put(documents, doc_id, req[r].text) ELSE documents
           meta1  == Put(metadata, doc_id,
                         [skill_level |-> res.skill_level, cluster_id |-> None])
           placed == FindOrCreateCluster(doc_id, res.suggested_cluster,
                                         res.concepts, meta1, clusters)
           meta2  == [meta1 EXCEPT ![doc_id].cluster_id = placed.cluster_id]
       IN  IF adds /\ AddRejects(req[r].text)
           THEN \* add_document raises InvalidInput
                /\ last' = Event(op, 500, "InvalidInput", None, None)
                /\ UNCHANGED <<vector_store, documents, metadata, clusters, added, saved>>
           ELSE IF ~res.valid
           THEN \* Concept(**c) raises
                /\ vector_store' = store1
                /\ documents' = docs1
                /\ added' = IF adds THEN added + 1 ELSE added
                /\ last' = Event(op, 500, "ValidationError", None, None)
                /\ UNCHANGED <<metadata, clusters, saved>>
           ELSE /\ vector_store' = store1
                /\ documents' = docs1
                /\ added' = IF adds THEN added + 1 ELSE added
                /\ metadata' = meta2
                /\ clusters' = placed.clusters
                /\ saved' = Snapshot(docs1, meta2, placed.clusters)
                /\ last' = Event(op, 200, "ok", doc_id, placed.cluster_id)
    /\ storage_lock' = IF ~res.valid THEN storage_lock ELSE 0
    /\ pc' = [pc EXCEPT ![r] = "idle"]
    /\ req' = [req EXCEPT ![r] = IdleReq]
    /\ UNCHANGED unit_vars

\* extract has returned res and the handler runs to its end.
UploadFinish(r, res) ==
    /\ pc[r] = "extract"
    /\ LET kind   == req[r].kind
           op     == "upload_" \o kind
           adds   == kind # "image"
           doc_id == IF adds THEN NextId(vector_store) ELSE req[r].doc_id
           store1 == IF adds THEN AddDocument(vector_store, req[r].text) ELSE vector_store
           docs1  == IF adds THEN Put(documents, doc_id, req[r].text) ELSE documents
           meta1  == Put(metadata, doc_id,
                         [skill_level |-> res.skill_level, cluster_id |-> None])
           placed == FindOrCreateCluster(doc_id, res.suggested_cluster,
                                         res.concepts, meta1, clusters)
           meta2  == [meta1 EXCEPT ![doc_id].cluster_id = placed.cluster_id]
       IN  IF adds /\ AddRejects(req[r].text)
           THEN \* add_document raises InvalidInput
                /\ last' = Event(op, 500, "InvalidInput", None, None)
                /\ UNCHANGED <<vector_store, documents, metadata, clusters, added, saved>>
           ELSE IF ~res.valid
           THEN \* Concept(**c) raises
                /\ vector_store' = store1
                /\ documents' = docs1
                /\ added' = IF adds THEN added + 1 ELSE added
                /\ last' = Event(op, 500, "ValidationError", None, None)
                /\ UNCHANGED <<metadata, clusters, saved>>
           ELSE /\ vector_store' = store1
                /\ documents' = docs1
                /\ added' = IF adds THEN added + 1 ELSE added
                /\ metadata' = meta2
                /\ clusters' = placed.clusters
                /\ saved' = Snapshot(docs1, meta2, placed.clusters)
                /\ last' = Event(op, 200, "ok", doc_id, placed.cluster_id)
    /\ storage_lock' = 0
    /\ pc' = [pc EXCEPT ![r] = "idle"]
    /\ req' = [req EXCEPT ![r] = IdleReq]
    /\ UNCHANGED unit_vars

(* ------------------------- document management ------------------------ *)
\* the mutant of DeleteDocument that drops a cluster left without documents
DeleteDocumentDropsCluster(doc_id) ==
    /\ IF doc_id \notin DOMAIN documents
       THEN /\ last' = Event("delete_document", 404, "not_found", None, None)
            /\ UNCHANGED <<documents, metadata, clusters, saved>>
       ELSE LET has_meta == doc_id \in DOMAIN metadata
                cid      == IF has_meta THEN metadata[doc_id].cluster_id ELSE None
                detach   == /\ cid # None
                            /\ cid \in DOMAIN clusters
                            /\ doc_id \in SeqToSet(clusters[cid].doc_ids)
                cls1     == IF ~detach THEN clusters
                            ELSE IF RemoveFirst(clusters[cid].doc_ids, doc_id) = <<>>
                            THEN Drop(clusters, cid)
                            ELSE [clusters EXCEPT ![cid].doc_ids = RemoveFirst(@, doc_id)]
            IN  /\ documents' = Drop(documents, doc_id)
                /\ metadata' = Drop(metadata, doc_id)
                /\ clusters' = cls1
                /\ saved' = Snapshot(Drop(documents, doc_id), Drop(metadata, doc_id), cls1)
                /\ last' = Event("delete_document", 200, "ok", None, None)
    /\ UNCHANGED <<vector_store, storage_lock, added, pc, req>>
    /\ UNCHANGED unit_vars

\* delete_document
DeleteDocument(doc_id) ==
    /\ IF doc_id \notin DOMAIN documents
       THEN /\ last' = Event("delete_document", 404, "not_found", None, None)
            /\ UNCHANGED <<documents, metadata, clusters, saved>>
       ELSE LET has_meta == doc_id \in DOMAIN metadata
                cid      == IF has_meta THEN metadata[doc_id].cluster_id ELSE None
                detach   == /\ cid # None
                            /\ cid \in DOMAIN clusters
                            /\ doc_id \in SeqToSet(clusters[cid].doc_ids)
                cls1     == IF detach
                            THEN [clusters EXCEPT ![cid].doc_ids = RemoveFirst(@, doc_id)]
                            ELSE clusters
            IN  /\ documents' = Drop(documents, doc_id)
                /\ metadata' = Drop(metadata, doc_id)
                /\ clusters' = cls1
                /\ saved' = Snapshot(Drop(documents, doc_id), Drop(metadata, doc_id), cls1)
                /\ last' = Event("delete_document", 200, "ok", None, None)
    /\ UNCHANGED <<vector_store, storage_lock, added, pc, req>>
    /\ UNCHANGED unit_vars

MetaSkillLevels == {"beginner", "intermediate", "advanced"}

\* bodies of PUT /documents/{doc_id}/metadata: any subset of the two keys
MetadataUpdates ==
    { <<>> }
    \cup { [cluster_id |-> c] : c \in {None} \cup ClusterIds }
    \cup { [skill_level |-> sl] : sl \in {"beginner", "expert"} }

\* update_document_metadata
UpdateDocumentMetadata(doc_id, updates) ==
    /\ IF doc_id \notin DOMAIN documents \/ doc_id \notin DOMAIN metadata
       THEN /\ last' = Event("update_document_metadata", 404, "not_found", None, None)
            /\ UNCHANGED <<metadata, clusters, saved>>
       ELSE LET meta1 == IF /\ "skill_level" \in DOMAIN updates
                            /\ updates.skill_level \in MetaSkillLevels
                         THEN [metadata EXCEPT ![doc_id].skill_level = updates.skill_level]
                         ELSE metadata
                reassign == "cluster_id" \in DOMAIN updates
                new_id == IF reassign THEN updates.cluster_id ELSE None
                old_id == metadata[doc_id].cluster_id
                leave  == /\ reassign
                          /\ old_id # None
                          /\ old_id \in DOMAIN clusters
                          /\ doc_id \in SeqToSet(clusters[old_id].doc_ids)
                cls1   == IF leave
                          THEN [clusters EXCEPT ![old_id].doc_ids = RemoveFirst(@, doc_id)]
                          ELSE clusters
                missing == reassign /\ new_id # None /\ new_id \notin DOMAIN clusters
                cls2   == IF reassign /\ new_id # None /\ ~missing
                          THEN [cls1 EXCEPT ![new_id].doc_ids = Append(@, doc_id)]
                          ELSE cls1
                meta2  == IF reassign
                          THEN [meta1 EXCEPT ![doc_id].cluster_id = new_id]
                          ELSE meta1
            IN  IF missing
                THEN \* raised after the document left its old cluster; no save
                     /\ metadata' = meta1
                     /\ clusters' = cls1
                     /\ last' = Event("update_document_metadata", 404,
                                      "cluster_not_found", doc_id, new_id)
                     /\ UNCHANGED saved
                ELSE /\ metadata' = meta2
                     /\ clusters' = cls2
                     /\ saved' = Snapshot(documents, meta2, cls2)
                     /\ last' = IF reassign
                                THEN Event("update_document_metadata", 200,
                                           "reassigned", doc_id, new_id)
                                ELSE Event("update_document_metadata", 200,
                                           "ok", None, None)
    /\ UNCHANGED <<vector_store, documents, storage_lock, added, pc, req>>
    /\ UNCHANGED unit_vars

ClusterSkillLevels == {"beginner", "intermediate", "advanced", "unknown"}

\* bodies of PUT /clusters/{cluster_id}
ClusterUpdates ==
    { [name |-> nDockerLc], [skill_level |-> "unknown"], [skill_level |-> "expert"] }

\* the mutant of UpdateCluster that recomputes the cluster it edits:
\* primary_concepts emptied, doc_count set from doc_ids
UpdateClusterRecompute(cluster_id, updates) ==
    /\ IF cluster_id \notin DOMAIN clusters
       THEN /\ last' = Event("update_cluster", 404, "not_found", None, None)
            /\ UNCHANGED <<clusters, saved>>
       ELSE LET cls2 == [clusters EXCEPT ![cluster_id].primary_concepts = <<>>,
                                         ![cluster_id].doc_count = Len(clusters[cluster_id].doc_ids)]
            IN  /\ clusters' = cls2
                /\ saved' = Snapshot(documents, metadata, cls2)
                /\ last' = Event("update_cluster", 200, "ok", None, None)
    /\ UNCHANGED <<vector_store, documents, metadata, storage_lock, added, pc, req>>
    /\ UNCHANGED unit_vars

\* update_cluster
UpdateCluster(cluster_id, updates) ==
    /\ IF cluster_id \notin DOMAIN clusters
       THEN /\ last' = Event("update_cluster", 404, "not_found", None, None)
            /\ UNCHANGED <<clusters, saved>>
       ELSE LET cls1 == IF "name" \in DOMAIN updates
                        THEN [clusters EXCEPT ![cluster_id].name = updates.name]
                        ELSE clusters
                cls2 == IF /\ "skill_level" \in DOMAIN updates
                           /\ updates.skill_level \in ClusterSkillLevels
                        THEN [cls1 EXCEPT ![cluster_id].skill_level = updates.skill_level]
                        ELSE cls1
            IN  /\ clusters' = cls2
                /\ saved' = Snapshot(documents, metadata, cls2)
                /\ last' = Event("update_cluster", 200, "ok", None, None)
    /\ UNCHANGED <<vector_store, documents, metadata, storage_lock, added, pc, req>>
    /\ UNCHANGED unit_vars

\* `del f[k]` for every k of ks that is in f
DropAll(f, ks) == [x \in DOMAIN f \ ks |-> f[x]]

\* vector_store.remove_document(doc_id) for every doc_id of ids
RECURSIVE RemoveDocuments(_, _)
RemoveDocuments(store, ids) ==
    IF ids = {} THEN store
    ELSE LET d == CHOOSE x \in ids : TRUE
         IN  RemoveDocuments(RemoveDocument(store, d), ids \ {d})

\* merge_duplicate_documents; outcome is what detector.merge_duplicates did
\* on the database: "ok", or it raised ValueError or another exception.
MergeDuplicateDocuments(keep_doc_id, delete_doc_ids, outcome) ==
    /\ IF outcome # "ok"
       THEN /\ last' = Event("merge_duplicate_documents",
                             IF outcome = "ValueError" THEN 400 ELSE 500,
                             outcome, None, None)
            /\ UNCHANGED <<vector_store, documents, metadata, saved>>
       ELSE /\ documents' = DropAll(documents, delete_doc_ids)
            /\ metadata' = DropAll(metadata, delete_doc_ids)
            /\ vector_store' = RemoveDocuments(vector_store, delete_doc_ids)
            /\ saved' = Snapshot(DropAll(documents, delete_doc_ids),
                                 DropAll(metadata, delete_doc_ids), clusters)
            /\ last' = Event("merge_duplicate_documents", 200, "ok", None, None)
    /\ UNCHANGED <<clusters, storage_lock, added, pc, req>>
    /\ UNCHANGED unit_vars

Next ==
    \/ \E r \in Reqs, kind \in Kinds, ingest_ok \in BOOLEAN :
          \E text \in BodiesOf(kind) : UploadStart(r, kind, text, ingest_ok)
    \/ \E r \in Reqs : AcquireLock(r)
    \/ \E r \in Reqs : ExtractRetry(r)
    \/ \E r \in Reqs, res \in ExtractionResults : UploadFinish(r, res)
    \/ \E doc_id \in DocIds : DeleteDocument(doc_id)
    \/ \E doc_id \in DocIds, updates \in MetadataUpdates :
          UpdateDocumentMetadata(doc_id, updates)
    \/ \E cluster_id \in ClusterIds, updates \in ClusterUpdates :
          UpdateCluster(cluster_id, updates)
    \/ \E delete_doc_ids \in (SUBSET DocIds) \ {{}},
          outcome \in {"ok", "ValueError", "Exception"} :
          \E keep_doc_id \in DocIds \ delete_doc_ids :
             MergeDuplicateDocuments(keep_doc_id, delete_doc_ids, outcome)

Spec == Init /\ [][Next]_vars

\* the upload handlers alone
NextUploads ==
    \/ \E r \in Reqs, kind \in Kinds, ingest_ok \in BOOLEAN :
          \E text \in BodiesOf(kind) : UploadStart(r, kind, text, ingest_ok)
    \/ \E r \in Reqs : AcquireLock(r)
    \/ \E r \in Reqs : ExtractRetry(r)
    \/ \E r \in Reqs, res \in ExtractionResults : UploadFinish(r, res)

SpecUploads == Init /\ [][NextUploads]_vars

\* The uploads as asyncio schedules them: asyncio.Lock wakes its waiters in
\* the order they asked, so a request that waits while the lock is released
\* again and again does acquire it (strong fairness); an extraction call that
\* has been awaited returns (weak fairness).
FairUploads ==
    \A r \in Reqs :
        /\ SF_vars(AcquireLock(r))
        /\ WF_vars(\E res \in ExtractionResults : UploadFinish(r, res))

SpecUploadsFair == Init /\ [][NextUploads]_vars /\ FairUploads

(* ----------------------- the VectorStore on its own -------------------- *)
IndexIds == 0..(MaxIssued - 1)

\* add_document(text)
VsAddDocument(text) ==
    /\ Len(issued) < MaxIssued
    /\ IF AddRejects(text)
       THEN /\ call' = [op |-> "add_document", result |-> "InvalidInput"]
            /\ UNCHANGED <<index, issued>>
       ELSE /\ index' = IndexAdd(index, text)
            /\ issued' = Append(issued, NextId(index.texts))
            /\ call' = [op |-> "add_document", result |-> "ok"]
    /\ UNCHANGED handler_vars

\* remove_document(doc_id)
VsRemoveDocument(doc_id) ==
    /\ index' = IndexRemove(index, doc_id)
    /\ call' = [op |-> "remove_document", doc_id |-> doc_id,
                known |-> doc_id \in DOMAIN index.texts]
    /\ UNCHANGED <<issued, handler_vars>>

NextVectorStore ==
    \/ \E text \in IndexTexts : VsAddDocument(text)
    \/ \E doc_id \in IndexIds : VsRemoveDocument(doc_id)

SpecVectorStore == Init /\ [][NextVectorStore]_vars

(* --------------------------- storage.py on its own --------------------- *)
\* the keys of f in ascending order: sorted(f.keys())
RECURSIVE SortedKeys(_)
SortedKeys(ks) ==
    IF ks = {} THEN <<>>
    ELSE LET k == CHOOSE x \in ks : \A y \in ks : x <= y
         IN  <<k>> \o SortedKeys(ks \ {k})

\* save_storage: what is written to the JSON file
SaveStorage(docs, meta, cls) ==
    [documents |-> [i \in 1..Cardinality(DOMAIN docs) |-> docs[SortedKeys(DOMAIN docs)[i]]],
     metadata  |-> [i \in 1..Cardinality(DOMAIN meta) |->
                      [doc_id |-> SortedKeys(DOMAIN meta)[i],
                       skill_level |-> meta[SortedKeys(DOMAIN meta)[i]].skill_level,
                       cluster_id |-> meta[SortedKeys(DOMAIN meta)[i]].cluster_id]],
     clusters  |-> [i \in 1..Cardinality(DOMAIN cls) |-> cls[SortedKeys(DOMAIN cls)[i]]]]

\* the vector store after add_document over texts, in order
RECURSIVE ReplayAdds(_, _)
ReplayAdds(store, texts) ==
    IF texts = <<>> THEN store
    ELSE ReplayAdds(AddDocument(store, Head(texts)), Tail(texts))

\* load_storage(path, vector_store) on a file that holds data: what it
\* returns, or which exception it raises, and the vector store afterwards.
\* `metadata[meta['doc_id']] = meta` subscripts a DocumentMetadata object,
\* which raises TypeError on the first metadata record.
LoadStorage(data, store) ==
    LET docs == [idx \in 0..(Len(data.documents) - 1) |-> data.documents[idx + 1]]
        cls  == [c \in {data.clusters[i].id : i \in 1..Len(data.clusters)} |->
                    LET i == CHOOSE j \in 1..Len(data.clusters) :
                                /\ data.clusters[j].id = c
                                /\ \A k \in (j + 1)..Len(data.clusters) :
                                      data.clusters[k].id # c
                    IN  data.clusters[i]]
    IN  IF data.metadata # <<>>
        THEN [raised |-> "TypeError", vector_store |-> ReplayAdds(store, data.documents)]
        ELSE [raised |-> "none", vector_store |-> ReplayAdds(store, data.documents),
              documents |-> docs, metadata |-> <<>>, clusters |-> cls]

StorageIds == 0..2
StorageTexts == { <<"a">>, <<"B">>, <<"b", " ">> }
\* the documents dictionaries saved: any key set, texts add_document accepted
StorageDocuments ==
    UNION { [ks -> StorageTexts] : ks \in SUBSET StorageIds }

\* a registry with one cluster that lists the documents in members
StorageClusters(members) ==
    IF members = {} THEN <<>>
    ELSE [c \in {1} |->
            [id |-> 1, name |-> nGeneral, primary_concepts |-> <<>>,
             doc_ids |-> SortedKeys(members), skill_level |-> "unknown",
             doc_count |-> Cardinality(members)]]

\* save_storage(path, documents, metadata, clusters, users), then
\* load_storage(path, an empty VectorStore); with_meta: every document has
\* its metadata record and is listed in the one cluster of the registry
SaveThenLoad(docs, with_meta) ==
    LET members == IF with_meta THEN DOMAIN docs ELSE {}
        meta == [d \in members |-> [skill_level |-> "unknown", cluster_id |-> 1]]
        cls  == StorageClusters(members)
    IN  /\ call.op = "none"
        /\ call' = [op |-> "save_load", documents |-> docs, metadata |-> meta,
                    clusters |-> cls,
                    loaded |-> LoadStorage(SaveStorage(docs, meta, cls), <<>>)]
        /\ UNCHANGED <<index, issued, handler_vars>>

NextStorage ==
    \E docs \in StorageDocuments, with_meta \in BOOLEAN : SaveThenLoad(docs, with_meta)

SpecStorage == Init /\ [][NextStorage]_vars

(* ------------------------- search_full_content ------------------------- *)
\* ingested_at and the date_from / date_to parameters: absent (None or ''),
\* not an ISO date, or the ISO date of a day
NoDate == [kind |-> "none", day |-> 0]
BadDate == [kind |-> "bad", day |-> 0]
IsoDate(day) == [kind |-> "iso", day |-> day]

Users == {"u", "v"}
\* what a stored document is: its text and its DocumentMetadata
Profiles ==
    { [owner |-> o, text |-> t, cluster_id |-> v.cluster_id, source_type |-> v.source_type,
       skill_level |-> v.skill_level, ingested_at |-> v.ingested_at] :
        o \in Users, t \in { <<"a">>, <<"B">> },
        v \in { [cluster_id |-> 1, source_type |-> "text", skill_level |-> "beginner",
                 ingested_at |-> IsoDate(1)],
                [cluster_id |-> 2, source_type |-> "url", skill_level |-> "unknown",
                 ingested_at |-> BadDate] } }
\* the documents uploaded so far, in upload order: document i - 1 is lib[i]
Libraries == UNION { [1..n -> Profiles] : n \in 0..MaxLibrary }
\* libraries whose documents differ in owner and text only
PlainLibraries ==
    { lib \in Libraries : \A i \in 1..Len(lib) : lib[i].cluster_id = 1 }

\* the filters of a request: cluster_id, source_type, skill_level, date_from, date_to
NoFilter ==
    [cluster_id |-> None, source_type |-> "", skill_level |-> "",
     date_from |-> NoDate, date_to |-> NoDate]
SearchFilters ==
    { NoFilter,
      [NoFilter EXCEPT !.cluster_id = 1],
      [NoFilter EXCEPT !.source_type = "url"],
      [NoFilter EXCEPT !.skill_level = "beginner"],
      [NoFilter EXCEPT !.date_from = IsoDate(1)],
      [NoFilter EXCEPT !.date_to = BadDate] }
Queries == { <<>>, <<"a">>, <<"b", " ", "A">> }
TopKs == {0, 1, 2, MaxTopK + 1}

\* metadata and the index after the documents of lib have been uploaded
LibraryMetadata(lib) == [d \in 0..(Len(lib) - 1) |-> lib[d + 1]]
RECURSIVE LibraryIndex(_)
LibraryIndex(lib) ==
    IF lib = <<>> THEN EmptyIndex
    ELSE IndexAdd(LibraryIndex(SubSeq(lib, 1, Len(lib) - 1)), lib[Len(lib)].text)

\* the mutant of EffectiveTopK that passes top_k on as it came
EffectiveTopKNoClamp(top_k) == top_k

\* `if top_k < 1 or top_k > 50: top_k = 10`
EffectiveTopK(top_k) == IF top_k < 1 \/ top_k > MaxTopK THEN DefaultTopK ELSE top_k

\* the mutant of UserDocIds that takes every user's documents
UserDocIdsAll(meta, username) == DOMAIN meta

\* user_doc_ids
UserDocIds(meta, username) == {d \in DOMAIN meta : meta[d].owner = username}

\* the date-range loop keeps a document: its ingested_at and the bounds given
\* parse, and the date lies within them
DateKept(at, date_from, date_to) ==
    /\ at.kind = "iso"
    /\ date_from.kind # "none" => (date_from.kind = "iso" /\ at.day >= date_from.day)
    /\ date_to.kind # "none" => (date_to.kind = "iso" /\ at.day <= date_to.day)

\* filtered_ids
FilteredIds(meta, username, f) ==
    LET by_cluster == IF f.cluster_id # None
                      THEN {d \in UserDocIds(meta, username) : meta[d].cluster_id = f.cluster_id}
                      ELSE UserDocIds(meta, username)
        by_source  == IF f.source_type # ""
                      THEN {d \in by_cluster : meta[d].source_type = f.source_type}
                      ELSE by_cluster
        by_skill   == IF f.skill_level # ""
                      THEN {d \in by_source : meta[d].skill_level = f.skill_level}
                      ELSE by_source
    IN  IF f.date_from.kind # "none" \/ f.date_to.kind # "none"
        THEN {d \in by_skill : DateKept(meta[d].ingested_at, f.date_from, f.date_to)}
        ELSE by_skill

\* search_full_content: the doc_ids of "results", in order
SearchFullContent(meta, ix, username, q, top_k, f) ==
    IF UserDocIds(meta, username) = {} \/ FilteredIds(meta, username, f) = {} THEN <<>>
    ELSE Search(ix, q, EffectiveTopK(top_k), FilteredIds(meta, username, f))

\* the requests made: GET /search_full by username on the library lib, and
\* the same request of user "u" on two libraries that hold the same
\* documents of "u" under the same ids and differ in other users' documents
SearchRequests(libraries) ==
    { [op |-> "request", lib |-> lib, lib2 |-> lib, username |-> username, q |-> q,
       top_k |-> top_k, f |-> f] :
        lib \in libraries, username \in Users, q \in Queries, top_k \in TopKs,
        f \in SearchFilters }
    \cup
    { [op |-> "request", lib |-> pair[1], lib2 |-> pair[2], username |-> "u", q |-> q,
       top_k |-> top_k, f |-> NoFilter] :
        pair \in { p \in (PlainLibraries \cap libraries) \X (PlainLibraries \cap libraries) :
                     /\ p[1] # p[2]
                     /\ Len(p[1]) = Len(p[2])
                     /\ \A i \in 1..Len(p[1]) :
                           (p[1][i].owner = "u" \/ p[2][i].owner = "u") => p[1][i] = p[2][i] },
        q \in Queries, top_k \in TopKs }

InitSearch ==
    /\ InitHandlers
    /\ index = EmptyIndex
    /\ issued = <<>>
    /\ call \in SearchRequests(Libraries)

\* the handler answers the request; results2 is its answer on lib2
SearchFull ==
    /\ call.op = "request"
    /\ call' = [op |-> "search_full", lib |-> call.lib, lib2 |-> call.lib2,
                username |-> call.username, q |-> call.q, top_k |-> call.top_k,
                f |-> call.f, used |-> EffectiveTopK(call.top_k),
                results |-> SearchFullContent(LibraryMetadata(call.lib),
                                LibraryIndex(call.lib), call.username, call.q,
                                call.top_k, call.f),
                results2 |-> SearchFullContent(LibraryMetadata(call.lib2),
                                 LibraryIndex(call.lib2), call.username, call.q,
                                 call.top_k, call.f)]
    /\ UNCHANGED <<index, issued, handler_vars>>

NextSearch == SearchFull

SpecSearch == InitSearch /\ [][NextSearch]_vars

(* ---------------------- the ClusteringEngine on its own ---------------- *)
RegistryIds == 1..(MaxRegistry + 1)
\* the concepts extracted from a document
DocConceptLists ==
    { <<>>,
      <<[name |-> cDocker, confidence |-> 90]>>,
      <<[name |-> cDockerUc, confidence |-> 80], [name |-> cCompose, confidence |-> 90]>>,
      <<[name |-> cDocker, confidence |-> 50], [name |-> cPython, confidence |-> 50]>>,
      <<[name |-> cDocker, confidence |-> 90], [name |-> cCompose, confidence |-> 70],
        [name |-> cKube, confidence |-> 80], [name |-> cPython, confidence |-> 70],
        [name |-> cGit, confidence |-> 10], [name |-> cRust, confidence |-> 95]>> }
\* the clusters a registry may hold under one id; doc_ids = [], doc_count = 1
\* is a cluster whose one document delete_document has removed
ClusterShapes ==
    { [name |-> n, primary_concepts |-> prim, doc_ids |-> m.doc_ids, doc_count |-> m.doc_count] :
        n \in {nDocker, nGeneral},
        prim \in { <<>>, <<cDocker>>, <<cDockerUc, cCompose>> },
        m \in { [doc_ids |-> <<0>>, doc_count |-> 1],
                [doc_ids |-> <<0, 1>>, doc_count |-> 2],
                [doc_ids |-> <<>>, doc_count |-> 1] } }
\* the registries: at most MaxRegistry clusters under ids of RegistryIds
Registries ==
    UNION { { [c \in ids |->
                [id |-> c, name |-> shape[c].name,
                 primary_concepts |-> shape[c].primary_concepts,
                 doc_ids |-> shape[c].doc_ids, skill_level |-> "beginner",
                 doc_count |-> shape[c].doc_count]] : shape \in [ids -> ClusterShapes] } :
            ids \in {x \in SUBSET RegistryIds : Cardinality(x) <= MaxRegistry} }

\* the calls made on the engine with main.py's arguments
ClusteringRequests(registries) ==
    { [op |-> "request", fn |-> fn, existing |-> reg, concepts |-> cs, name |-> n,
       doc_id |-> 2, cluster_id |-> None] :
        fn \in {"find_best_cluster", "create_cluster"}, reg \in registries,
        cs \in DocConceptLists, n \in {nDocker, nDockerLc, nGeneral} }
    \cup
    { [op |-> "request", fn |-> "add_to_cluster", existing |-> reg, concepts |-> <<>>,
       name |-> nGeneral, doc_id |-> d, cluster_id |-> c] :
        reg \in registries, d \in {0, 2}, c \in RegistryIds }

InitClustering ==
    /\ InitHandlers
    /\ index = EmptyIndex
    /\ issued = <<>>
    /\ call \in ClusteringRequests(Registries)

\* clustering_engine.find_best_cluster(doc_concepts, suggested_name, clusters)
CallFindBestCluster ==
    /\ call.op = "request" /\ call.fn = "find_best_cluster"
    /\ call' = [op |-> "find_best_cluster", existing |-> call.existing,
                concepts |-> call.concepts, name |-> call.name,
                found |-> FindBestCluster(call.concepts, call.name, call.existing)]
    /\ UNCHANGED <<index, issued, handler_vars>>

\* clustering_engine.create_cluster(doc_id, name, concepts, skill_level, clusters)
CallCreateCluster ==
    /\ call.op = "request" /\ call.fn = "create_cluster"
    /\ call' = [op |-> "create_cluster", existing |-> call.existing,
                concepts |-> call.concepts, name |-> call.name, doc_id |-> call.doc_id,
                cluster_id |-> NextClusterId(call.existing),
                clusters |-> CreateCluster(call.doc_id, call.name, call.concepts,
                                           "beginner", call.existing)]
    /\ UNCHANGED <<index, issued, handler_vars>>

\* clustering_engine.add_to_cluster(cluster_id, doc_id, clusters), twice
CallAddToCluster ==
    /\ call.op = "request" /\ call.fn = "add_to_cluster"
    /\ call' = [op |-> "add_to_cluster", existing |-> call.existing,
                doc_id |-> call.doc_id, cluster_id |-> call.cluster_id,
                once |-> AddToCluster(call.cluster_id, call.doc_id, call.existing),
                twice |-> AddToCluster(call.cluster_id, call.doc_id,
                             AddToCluster(call.cluster_id, call.doc_id, call.existing))]
    /\ UNCHANGED <<index, issued, handler_vars>>

NextClustering ==
    \/ CallFindBestCluster
    \/ CallCreateCluster
    \/ CallAddToCluster

SpecClustering == InitClustering /\ [][NextClustering]_vars

(* ---------------------- ConceptExtractor.extract on its own ------------- *)
\* A reply's content is a sequence of tokens: the markdown fence (three
\* backquotes), the word json,
\* whitespace, and one body.
Fence == "fence"
\* bodies: a JSON object that passes Concept validation, one that does not,
\* a JSON list, and text that is no JSON
ReplyBodies == {"object", "bad_object", "list", "junk"}
ReplyContents ==
    { <<>> }
    \cup { <<" ", b, "\n">> : b \in ReplyBodies }
    \cup { <<Fence, "json", "\n", b, "\n", Fence>> : b \in ReplyBodies }
    \cup { <<Fence, "\n", b, "\n", Fence>> : b \in ReplyBodies }
\* what one attempt of client.chat.completions.create does: it raises, or
\* answers with a content, which may be None
AttemptOutcomes ==
    { [kind |-> "error", content |-> <<>>], [kind |-> "none", content |-> <<>>] }
    \cup { [kind |-> "reply", content |-> c] : c \in ReplyContents }

\* the attempts of _call_openai_with_retry from attempt i on
RECURSIVE RetryFrom(_, _)
RetryFrom(outcomes, i) ==
    IF outcomes[i].kind # "error"
    THEN [attempts |-> i, raised |-> FALSE, response |-> outcomes[i]]
    ELSE IF i < MaxAttempts
    THEN RetryFrom(outcomes, i + 1)
    ELSE [attempts |-> i, raised |-> TRUE, response |-> outcomes[i]]

\* _call_openai_with_retry: stop_after_attempt(3), reraise = True
CallOpenAIWithRetry(outcomes) == RetryFrom(outcomes, 1)

\* str.split(fence)
RECURSIVE SplitFence(_)
SplitFence(text) ==
    IF \A i \in 1..Len(text) : text[i] # Fence THEN <<text>>
    ELSE LET i == CHOOSE k \in 1..Len(text) :
                    text[k] = Fence /\ \A j \in 1..(k - 1) : text[j] # Fence
         IN  <<SubSeq(text, 1, i - 1)>> \o SplitFence(SubSeq(text, i + 1, Len(text)))

\* "Remove markdown code blocks if present"
StripCodeBlock(text) ==
    IF text # <<>> /\ Head(text) = Fence
    THEN LET seg == SplitFence(text)[2]
         IN  Strip(IF seg # <<>> /\ Head(seg) = "json" THEN Tail(seg) ELSE seg)
    ELSE text

\* json.loads: the value, or JSONDecodeError
JsonLoads(text) ==
    IF Len(Strip(text)) = 1 /\ Strip(text)[1] \in {"object", "bad_object", "list"}
    THEN [ok |-> TRUE, value |-> Strip(text)[1]]
    ELSE [ok |-> FALSE, value |-> "JSONDecodeError"]

\* the dict a JSON object of a reply decodes to
ReplyObject(body) ==
    IF body = "object"
    THEN [concepts |-> <<[name |-> cDocker, confidence |-> 90]>>,
          skill_level |-> "beginner", suggested_cluster |-> nDocker, valid |-> TRUE]
    ELSE [concepts |-> <<[name |-> cDocker, confidence |-> 50]>>,
          skill_level |-> "beginner", suggested_cluster |-> nDocker, valid |-> FALSE]

\* the mutant of Extract that lets the exception of the last attempt through
ExtractReraises(outcomes) ==
    LET r == CallOpenAIWithRetry(outcomes)
        parsed == JsonLoads(StripCodeBlock(Strip(r.response.content)))
    IN  IF r.raised
        THEN [raised |-> TRUE, attempts |-> r.attempts, result |-> Fallback]
        ELSE IF r.response.kind = "none" \/ ~parsed.ok \/ parsed.value = "list"
        THEN [raised |-> FALSE, attempts |-> r.attempts, result |-> Fallback]
        ELSE [raised |-> FALSE, attempts |-> r.attempts,
              result |-> ReplyObject(parsed.value)]

\* extract(content, source_type): whether it raised, the attempts made and the
\* dict returned
Extract(outcomes) ==
    LET r == CallOpenAIWithRetry(outcomes)
        parsed == JsonLoads(StripCodeBlock(Strip(r.response.content)))
    IN  IF r.raised
        THEN \* except Exception
             [raised |-> FALSE, attempts |-> r.attempts, result |-> Fallback]
        ELSE IF r.response.kind = "none"
        THEN \* None.strip(): AttributeError, except Exception
             [raised |-> FALSE, attempts |-> r.attempts, result |-> Fallback]
        ELSE IF ~parsed.ok
        THEN \* except json.JSONDecodeError
             [raised |-> FALSE, attempts |-> r.attempts, result |-> Fallback]
        ELSE IF parsed.value = "list"
        THEN \* result.get on a list: AttributeError, except Exception
             [raised |-> FALSE, attempts |-> r.attempts, result |-> Fallback]
        ELSE [raised |-> FALSE, attempts |-> r.attempts,
              result |-> ReplyObject(parsed.value)]

\* what an upload handler does with the extraction once the document is in
\* the vector store and in documents: metadata, cluster, save
UploadTail(doc_id, extraction, existing) ==
    IF ~extraction.valid
    THEN [raised |-> "ValidationError", clusters |-> existing, cluster_id |-> None,
          skill_level |-> "none"]
    ELSE LET meta == doc_id :> [skill_level |-> extraction.skill_level,
                                cluster_id |-> None]
             placed == FindOrCreateCluster(doc_id, extraction.suggested_cluster,
                                           extraction.concepts, meta, existing)
         IN  [raised |-> "none", clusters |-> placed.clusters,
              cluster_id |-> placed.cluster_id,
              skill_level |-> extraction.skill_level]

ExtractRequests(registries) ==
    { [op |-> "request", outcomes |-> o, existing |-> reg] :
        o \in [1..MaxAttempts -> AttemptOutcomes],
        reg \in {g \in registries : DOMAIN g \subseteq {1}
                    /\ \A c \in DOMAIN g : g[c].doc_ids = <<0>>} }

InitExtract ==
    /\ InitHandlers
    /\ index = EmptyIndex
    /\ issued = <<>>
    /\ call \in ExtractRequests(Registries)

\* an upload handler awaits extract and goes on to its end with document 2
CallExtract ==
    /\ call.op = "request"
    /\ LET e == Extract(call.outcomes)
       IN  call' = [op |-> "extract", outcomes |-> call.outcomes,
                    existing |-> call.existing, raised |-> e.raised,
                    attempts |-> e.attempts, result |-> e.result,
                    upload |-> IF e.raised
                               THEN [raised |-> "Exception", clusters |-> call.existing,
                                     cluster_id |-> None, skill_level |-> "none"]
                               ELSE UploadTail(2, e.result, call.existing)]
    /\ UNCHANGED <<index, issued, handler_vars>>

NextExtract == CallExtract

SpecExtract == InitExtract /\ [][NextExtract]_vars

(* ------------------------- access tokens on their own ------------------- *)
SecretKey == "k"
Times == 1..MaxNow
\* hmac.new(key, payload, sha256).hexdigest(): taken as collision-free
Hmac(key, payload) == [key |-> key, msg |-> payload]
\* json.dumps(...).encode and bytes.hex(), undone by bytes.fromhex and json.loads
JsonDumps(data) == [kind |-> "json", data |-> data]
Hex(bytes) == [kind |-> "hex", bytes |-> bytes]

\* the values of "sub": two user names, an unknown name, the empty string,
\* and "null" for a payload without sub
Subs == {"u", "v", "x", "", "null"}
\* the values of "exp": a clock reading, 0, and None for a payload without exp
Exps == {None, 0} \cup (1..(MaxNow + TokenExpireMinutes))
\* what a payload may decode to: an object, a JSON value that is none, or
\* bytes that are no JSON
PayloadBytes ==
    { JsonDumps([kind |-> "object", sub |-> sub, exp |-> exp]) : sub \in Subs, exp \in Exps }
    \cup { JsonDumps([kind |-> "list", sub |-> "null", exp |-> None]),
           [kind |-> "junk", data |-> [kind |-> "list", sub |-> "null", exp |-> None]] }

\* create_access_token(data) at clock reading now
CreateAccessToken(sub, now) ==
    LET payload == JsonDumps([kind |-> "object", sub |-> sub,
                              exp |-> now + TokenExpireMinutes])
    IN  <<Hex(payload), Hmac(SecretKey, payload)>>

\* decode_access_token(token) at clock reading now: a token is the sequence
\* of its parts between the dots; ok = FALSE is ValueError('Invalid token')
DecodeAccessToken(token, now) ==
    IF Len(token) # 2
    THEN \* payload_hex, signature = token.split('.') cannot unpack
         [ok |-> FALSE, sub |-> "null"]
    ELSE IF token[1].kind # "hex"
    THEN \* bytes.fromhex raises
         [ok |-> FALSE, sub |-> "null"]
    ELSE IF token[2] # Hmac(SecretKey, token[1].bytes)
    THEN [ok |-> FALSE, sub |-> "null"]
    ELSE IF token[1].bytes.kind # "json"
    THEN \* json.loads raises
         [ok |-> FALSE, sub |-> "null"]
    ELSE IF token[1].bytes.data.kind # "object"
    THEN \* data.get on a list raises
         [ok |-> FALSE, sub |-> "null"]
    ELSE LET exp == token[1].bytes.data.exp
         IN  IF (exp # None /\ exp # 0) /\ exp < now
             THEN [ok |-> FALSE, sub |-> "null"]
             ELSE [ok |-> TRUE, sub |-> token[1].bytes.data.sub]

\* get_current_user(token): 200 and the user, or 401
GetCurrentUser(token, now, usernames) ==
    LET payload == DecodeAccessToken(token, now)
    IN  IF ~payload.ok THEN [status |-> 401, username |-> "null"]
        ELSE IF payload.sub \in {"", "null"} \/ payload.sub \notin usernames
        THEN [status |-> 401, username |-> "null"]
        ELSE [status |-> 200, username |-> payload.sub]

\* the signatures a token may carry: the right one, one made with another
\* key, and the right one of another payload
Signatures(p) ==
    {Hmac(SecretKey, p), Hmac("k2", p),
     Hmac(SecretKey, JsonDumps([kind |-> "object", sub |-> "x", exp |-> MaxNow]))}

\* the tokens presented: every payload with every signature, tokens of one
\* and of three parts, a first part that is no hex, and the tokens that
\* create_access_token issued at issued_at (None: not issued by it)
AuthRequests(payloads) ==
    UNION { { [op |-> "request", token |-> <<Hex(p), sig>>, now |-> now, users |-> us,
               issued_at |-> None] :
                sig \in Signatures(p), now \in Times, us \in {{"u"}, {"u", "v"}} } :
            p \in payloads }
    \cup
    { [op |-> "request", token |-> t, now |-> now, users |-> {"u"}, issued_at |-> None] :
        t \in { <<Hex(p)>> : p \in payloads }
              \cup { <<Hex(p), Hmac(SecretKey, p), Hmac(SecretKey, p)>> : p \in payloads }
              \cup { <<[kind |-> "text", bytes |-> p], Hmac(SecretKey, p)>> : p \in payloads },
        now \in {1} }
    \cup
    { [op |-> "request", token |-> CreateAccessToken(sub, t0), now |-> now, users |-> us,
       issued_at |-> t0] :
        sub \in {"u", "v"}, t0 \in Times, now \in Times, us \in {{"u"}, {"u", "v"}} }

InitAuth ==
    /\ InitHandlers
    /\ index = EmptyIndex
    /\ issued = <<>>
    /\ call \in {c \in AuthRequests(PayloadBytes) : c.issued_at = None \/ c.issued_at <= c.now}

\* a request carrying the token reaches a handler that depends on get_current_user
CallGetCurrentUser ==
    /\ call.op = "request"
    /\ call' = [op |-> "get_current_user", token |-> call.token, now |-> call.now,
                users |-> call.users, issued_at |-> call.issued_at,
                answer |-> GetCurrentUser(call.token, call.now, call.users)]
    /\ UNCHANGED <<index, issued, handler_vars>>

NextAuth == CallGetCurrentUser

SpecAuth == InitAuth /\ [][NextAuth]_vars

(* --------------------------- startup on its own ------------------------- *)
\* what a load returns: the user names it found, or "raises"
LoadOutcomes == {[raises |-> TRUE, users |-> {}]}
                \cup {[raises |-> FALSE, users |-> us] : us \in {{}, {"u"}, {"u", "v"}}}

\* what the process meets at start: init_db and load_storage_from_db,
\* load_storage on the file, and the first and second save_storage_to_db
StartupRequests(loads) ==
    { [op |-> "boot", init_db_raises |-> i, db_load |-> d, file_load |-> f,
       save_raises |-> s1, second_save_raises |-> s2] :
        i \in BOOLEAN, d \in loads, f \in loads, s1 \in BOOLEAN, s2 \in BOOLEAN }

\* startup_event(): raised = TRUE when the exception leaves the handler;
\* db_saves counts the save_storage_to_db calls that returned, file_saves
\* the save_storage calls
StartupEvent(c) ==
    LET from_db == ~c.init_db_raises /\ ~c.db_load.raises
        loaded  == IF from_db THEN c.db_load ELSE c.file_load
    IN  IF ~from_db /\ c.file_load.raises
        THEN [raised |-> TRUE, users |-> {}, db_saves |-> 0, file_saves |-> 0]
        ELSE IF loaded.users # {}
        THEN [raised |-> FALSE, users |-> loaded.users, db_saves |-> 0, file_saves |-> 0]
        ELSE IF ~c.save_raises
        THEN [raised |-> FALSE, users |-> {"test"}, db_saves |-> 1, file_saves |-> 0]
        ELSE IF ~c.second_save_raises
        THEN [raised |-> FALSE, users |-> {"test"}, db_saves |-> 1, file_saves |-> 0]
        ELSE [raised |-> TRUE, users |-> {"test"}, db_saves |-> 0, file_saves |-> 0]

InitStartup ==
    /\ InitHandlers
    /\ index = EmptyIndex
    /\ issued = <<>>
    /\ call \in StartupRequests(LoadOutcomes)

CallStartupEvent ==
    /\ call.op = "boot"
    /\ call' = [op |-> "startup_event", boot |-> call, answer |-> StartupEvent(call)]
    /\ UNCHANGED <<index, issued, handler_vars>>

NextStartup == CallStartupEvent

SpecStartup == InitStartup /\ [][NextStartup]_vars

(* ---------------------- the extractor's cache on its own ---------------- *)
SourceTypes == {"text", "pdf"}
\* a content shorter than the sample and a longer one
Contents == {<<"a">>, <<"a", "b", "c">>}
\* the serialized results handed to _cache_result
SerializedResults == {"r1", "r2"}

\* _compute_content_hash: sha256, taken as collision-free, of source_type:sample
ComputeContentHash(content, source_type) ==
    LET sample == IF Len(content) > SampleSize THEN SubSeq(content, 1, SampleSize)
                  ELSE content
    IN  <<source_type, sample>>

Hashes == {ComputeContentHash(c, t) : c \in Contents, t \in SourceTypes}

\* _get_cached_result under lru_cache: memo is what the decorator remembers,
\* the value the body returned the first time for each hash
GetCachedResult(memo, h) ==
    IF h \in DOMAIN memo
    THEN [value |-> memo[h], memo |-> memo]
    ELSE [value |-> "", memo |-> [x \in DOMAIN memo \cup {h} |->
                                     IF x = h THEN "" ELSE memo[x]]]

\* _cache_result(content_hash, result): calls _get_cached_result and drops result
CacheResult(memo, h, result) == GetCachedResult(memo, h).memo

\* extract(content, source_type): the hash is computed and logged, then the
\* model is called; neither _get_cached_result nor _cache_result is called
ExtractCached(memo, content, source_type, outcomes) ==
    [content_hash |-> ComputeContentHash(content, source_type),
     llm_attempts |-> Extract(outcomes).attempts,
     memo |-> memo]

\* what the model does in the attempts of one extract: it answers at once,
\* answers at the second attempt, or fails every time
CacheOutcomes ==
    LET ok  == [kind |-> "reply", content |-> <<" ", "object", "\n">>]
        err == [kind |-> "error", content |-> <<>>]
    IN  { [i \in 1..MaxAttempts |-> ok],
          [i \in 1..MaxAttempts |-> IF i = 1 THEN err ELSE ok],
          [i \in 1..MaxAttempts |-> err] }

\* stored and extracted remember what was handed to _cache_result and to extract
InitCache ==
    /\ InitHandlers
    /\ index = EmptyIndex
    /\ issued = <<>>
    /\ call = [op |-> "new", memo |-> <<>>, stored |-> <<>>, extracted |-> {},
               h |-> <<"text", <<>>>>, answer |-> "", again |-> FALSE, llm_attempts |-> 0]

CallCacheResult(h, result) ==
    /\ call' = [call EXCEPT !.op = "_cache_result", !.h = h, !.answer = "",
                    !.again = FALSE, !.llm_attempts = 0,
                    !.memo = CacheResult(call.memo, h, result),
                    !.stored = [x \in DOMAIN call.stored \cup {h} |->
                                    IF x = h THEN result ELSE call.stored[x]]]
    /\ UNCHANGED <<index, issued, handler_vars>>

CallGetCachedResult(h) ==
    /\ call' = [call EXCEPT !.op = "_get_cached_result", !.h = h,
                    !.again = FALSE, !.llm_attempts = 0,
                    !.answer = GetCachedResult(call.memo, h).value,
                    !.memo = GetCachedResult(call.memo, h).memo]
    /\ UNCHANGED <<index, issued, handler_vars>>

CallExtractCached(content, source_type, outcomes) ==
    LET e == ExtractCached(call.memo, content, source_type, outcomes)
    IN  /\ call' = [call EXCEPT !.op = "extract", !.h = e.content_hash, !.answer = "",
                        !.again = <<content, source_type>> \in call.extracted,
                        !.llm_attempts = e.llm_attempts,
                        !.memo = e.memo,
                        !.extracted = @ \cup {<<content, source_type>>}]
        /\ UNCHANGED <<index, issued, handler_vars>>

NextCache ==
    \/ \E h \in Hashes, result \in SerializedResults : CallCacheResult(h, result)
    \/ \E h \in Hashes : CallGetCachedResult(h)
    \/ \E content \in Contents, source_type \in SourceTypes, outcomes \in CacheOutcomes :
            CallExtractCached(content, source_type, outcomes)

SpecCache == InitCache /\ [][NextCache]_vars

(* ------------------------------ properties ----------------------------- *)
UploadOps == {"upload_" \o kind : kind \in Kinds}
\* no upload request is in progress (every other handler is one step)
AllIdle == \A r \in Reqs : pc[r] = "idle"
\* how often doc_id is listed in a cluster's doc_ids
Occurrences(cl, doc_id) ==
    Cardinality({i \in 1..Len(cl.doc_ids) : cl.doc_ids[i] = doc_id})
\* how often doc_id is listed in the whole registry
Memberships(doc_id) ==
    LET RECURSIVE Sum(_)
        Sum(cs) == IF cs = {} THEN 0
                   ELSE LET c == CHOOSE x \in cs : TRUE
                        IN  Occurrences(clusters[c], doc_id) + Sum(cs \ {c})
    IN  Sum(DOMAIN clusters)
StrictlyIncreasing(s) == \A i \in 1..(Len(s) - 1) : s[i] < s[i + 1]

\* C1: storage_lock is never held while a concept-extraction call (with its
\* retries) is in flight.
C1_LockNotHeldDuringExtraction ==
    \A r \in Reqs : ~(storage_lock = r /\ pc[r] = "extract")

\* C2: for every cluster of the registry doc_count equals the number of
\* entries of doc_ids.
C2_DocCountMatchesDocIds ==
    \A c \in DOMAIN clusters : clusters[c].doc_count = Len(clusters[c].doc_ids)

\* C3: no doc_id is listed in two clusters, nor twice in one cluster.
C3_AtMostOneMembership ==
    \A d \in DocIds : Memberships(d) <= 1

\* C4: after a successful reassignment of doc_id to cluster n the document is
\* listed exactly once in n, in no other cluster, and metadata names n.
C4_ReassignedExactlyOnce ==
    (last.op = "update_document_metadata" /\ last.detail = "reassigned"
        /\ last.cluster_id # None)
    => /\ Occurrences(clusters[last.cluster_id], last.doc_id) = 1
       /\ Memberships(last.doc_id) = 1
       /\ metadata[last.doc_id].cluster_id = last.cluster_id

\* C5: a reassignment answered 404 because the cluster does not exist leaves
\* clusters and metadata as they were before the call.
C5_FailedReassignChangesNothing ==
    [][(last'.op = "update_document_metadata" /\ last'.detail = "cluster_not_found")
        => (clusters' = clusters /\ metadata' = metadata)]_vars

\* an upload has called add_document and has not yet assigned a cluster
MidCompound(r) == pc[r] = "extract" /\ req[r].doc_id # None

\* C6: while an upload is between its add_document call and its cluster
\* assignment, no step of another handler changes the shared state.
C6_UploadCompoundAtomic ==
    [][\A r \in Reqs :
          (MidCompound(r)
              /\ <<vector_store, documents, metadata, clusters>>'
                    # <<vector_store, documents, metadata, clusters>>)
          => pc'[r] # pc[r]]_vars

\* C7: uploads alone, in any interleaving, create at most one cluster per
\* suggested name (compared case-insensitively), count every placed document
\* exactly once, and list the documents of a cluster in insertion order.
C7_OneClusterPerName ==
    /\ \A c1, c2 \in DOMAIN clusters :
          Lower(clusters[c1].name) = Lower(clusters[c2].name) => c1 = c2
    /\ \A c \in DOMAIN clusters :
          /\ clusters[c].doc_count = Len(clusters[c].doc_ids)
          /\ StrictlyIncreasing(clusters[c].doc_ids)
    /\ \A d \in DOMAIN metadata :
          /\ Memberships(d) = 1
          /\ metadata[d].cluster_id \in DOMAIN clusters
          /\ Occurrences(clusters[metadata[d].cluster_id], d) = 1

\* two uploads with the same suggested name share the cluster the first made
C7_Witness ==
    /\ AllIdle
    /\ \E c \in DOMAIN clusters :
          /\ clusters[c].doc_ids = <<0, 1>>
          /\ clusters[c].name = nGeneral

\* C8: an upload that returns successfully has placed its document: the
\* cluster_id returned is in the registry, metadata names it, and the
\* document is listed in that cluster.
C8_UploadAssigns ==
    (last.op \in UploadOps /\ last.status = 200)
    => /\ last.cluster_id \in DOMAIN clusters
       /\ last.doc_id \in DOMAIN metadata
       /\ metadata[last.doc_id].cluster_id = last.cluster_id
       /\ Occurrences(clusters[last.cluster_id], last.doc_id) >= 1

\* a successful upload was added to a cluster an earlier upload had created
C8_Witness ==
    /\ last.op \in UploadOps
    /\ last.status = 200
    /\ last.cluster_id \in DOMAIN clusters
    /\ Len(clusters[last.cluster_id].doc_ids) = 2

\* C9: whenever no request is in progress, every doc_id listed in a cluster
\* is a live document, present in documents and in metadata.
C9_MembersAreLive ==
    AllIdle =>
        \A c \in DOMAIN clusters :
            SeqToSet(clusters[c].doc_ids) \subseteq (DOMAIN documents \cap DOMAIN metadata)

\* C10 as claimed: on upload_text, upload_url and upload_file blank text is
\* rejected before add_document is called, so add_document never receives
\* blank text (never has to raise InvalidInput).
C10_BlankRejectedBeforeAdd ==
    last.detail # "InvalidInput"

\* C10 as amended: upload_text lets no blank text past its own check, and an
\* upload_url / upload_file that runs to its end holding blank text leaves
\* the vector store, documents, metadata and clusters unchanged.
C10_BlankNeverStored ==
    [][\A r \in Reqs :
          /\ (pc[r] = "idle" /\ pc'[r] # "idle" /\ req'[r].kind = "text")
                => Strip(req'[r].text) # <<>>
          /\ (pc[r] = "extract" /\ pc'[r] = "idle" /\ req[r].kind # "image"
                /\ Strip(req[r].text) = <<>>)
                => UNCHANGED <<vector_store, documents, metadata, clusters>>]_vars

\* add_document has refused the blank text of an upload_url / upload_file
C10_Witness ==
    /\ last.detail = "InvalidInput"
    /\ last.status = 500

\* C11 as claimed: every id add_document returns is greater than every id it
\* returned before.
C11_IdsStrictlyIncreasing ==
    StrictlyIncreasing(issued)

\* C11 as amended: the id add_document returns is greater than every id that
\* is in the index at the call, the new document is stored under it, and no
\* document already stored changes.
C11_IdAboveLiveIds ==
    [][issued' # issued =>
          /\ \A d \in DOMAIN index.texts : d < issued'[Len(issued')]
          /\ DOMAIN index'.texts = DOMAIN index.texts \cup {issued'[Len(issued')]}
          /\ \A d \in DOMAIN index.texts : index'.texts[d] = index.texts[d]]_vars

\* an id has been handed out a second time, after its document was removed
C11_Witness ==
    \E i, j \in 1..Len(issued) : i < j /\ issued[i] = issued[j]

\* C18: remove_document on an id that is not in the index (never added, or
\* removed before) changes neither texts, vectors nor document-frequency
\* counts, and a removal followed by the same removal equals one removal.
C18_RemoveUnknownIsNoOp ==
    [][(call'.op = "remove_document" /\ call' # call)
          => /\ ~call'.known => index' = index
             /\ IndexRemove(index', call'.doc_id) = index'
             /\ call'.doc_id \notin DOMAIN index'.texts]_vars

\* remove_document has been called on an id whose document was removed before
C18_Witness ==
    /\ call.op = "remove_document"
    /\ ~call.known
    /\ call.doc_id \in SeqToSet(issued)
    /\ index.texts # <<>>

\* C12: save_storage followed by load_storage into an empty vector store
\* returns the documents, metadata and clusters that were saved, every text
\* under its own doc_id, which is also its id in the rebuilt vector store.
C12_SaveLoadRoundTrip ==
    call.op = "save_load"
    => /\ call.loaded.raised = "none"
       /\ call.loaded.documents = call.documents
       /\ call.loaded.metadata = call.metadata
       /\ call.loaded.clusters = call.clusters
       /\ call.loaded.vector_store = call.documents

\* document d of library lib is owned by username and passes every filter
\* that request filters f supply
OwnedAndFiltered(lib, d, username, f) ==
    /\ d \in 0..(Len(lib) - 1)
    /\ lib[d + 1].owner = username
    /\ f.cluster_id # None => lib[d + 1].cluster_id = f.cluster_id
    /\ f.source_type # "" => lib[d + 1].source_type = f.source_type
    /\ f.skill_level # "" => lib[d + 1].skill_level = f.skill_level
    /\ f.date_from.kind # "none" =>
          /\ f.date_from.kind = "iso" /\ lib[d + 1].ingested_at.kind = "iso"
          /\ lib[d + 1].ingested_at.day >= f.date_from.day
    /\ f.date_to.kind # "none" =>
          /\ f.date_to.kind = "iso" /\ lib[d + 1].ingested_at.kind = "iso"
          /\ lib[d + 1].ingested_at.day <= f.date_to.day

\* C13 as claimed: every result of search_full is a document of the
\* requesting user that passes every supplied filter, and two runs that
\* differ only in other users' documents return the same result ids.
C13_SearchIsolated ==
    call.op = "search_full"
    => /\ \A i \in 1..Len(call.results) :
             OwnedAndFiltered(call.lib, call.results[i], call.username, call.f)
       /\ SeqToSet(call.results) = SeqToSet(call.results2)

\* C13 as amended: in both runs every result is a document of the requesting
\* user that passes every supplied filter; the two runs return the same ids
\* when top_k is at least the number of the user's documents.
C13_SearchWithinAllowed ==
    call.op = "search_full"
    => /\ \A i \in 1..Len(call.results) :
             OwnedAndFiltered(call.lib, call.results[i], call.username, call.f)
       /\ \A i \in 1..Len(call.results2) :
             OwnedAndFiltered(call.lib2, call.results2[i], call.username, call.f)
       /\ call.used >= Cardinality({i \in 1..Len(call.lib) :
                                      call.lib[i].owner = call.username})
             => SeqToSet(call.results) = SeqToSet(call.results2)

\* the two runs return different documents of the user
C13_Witness ==
    /\ call.op = "search_full"
    /\ call.lib # call.lib2
    /\ call.results # <<>>
    /\ SeqToSet(call.results) # SeqToSet(call.results2)

\* C14: the search of search_full runs with a top_k in 1..50 (the one given,
\* or 10), returns at most that many results, in descending score with ties
\* in ascending doc_id, no document twice, and nothing for an empty query or
\* an empty corpus.
C14_SearchTopKOrdered ==
    call.op = "search_full"
    => /\ call.used \in 1..MaxTopK
       /\ call.top_k \in 1..MaxTopK => call.used = call.top_k
       /\ call.top_k \notin 1..MaxTopK => call.used = DefaultTopK
       /\ Len(call.results) <= call.used
       /\ \A i, j \in 1..Len(call.results) :
             i < j =>
               /\ call.results[i] # call.results[j]
               /\ ~ScoreGreater(LibraryIndex(call.lib), call.q,
                                call.results[j], call.results[i])
               /\ \/ ScoreGreater(LibraryIndex(call.lib), call.q,
                                  call.results[i], call.results[j])
                  \/ call.results[i] < call.results[j]
       /\ (Terms(call.q) = {} \/ call.lib = <<>>) => call.results = <<>>

\* top_k cut the results short, and two results were ordered by score
C14_Witness ==
    /\ call.op = "search_full"
    /\ call.top_k = 2
    /\ Len(call.results) = 2
    /\ Len(call.lib) = 3
    /\ \A i \in 1..3 : call.lib[i].owner = call.username
    /\ call.f = NoFilter
    /\ call.results[1] > call.results[2]

\* the case-folded concept names of a document and of a cluster, and the two
\* counts of the overlap ratio, as C15 words them
FoldedDocNames(concepts) == {Lower(concepts[i].name) : i \in 1..Len(concepts)}
FoldedClusterNames(cl) == {Lower(cl.primary_concepts[i]) : i \in 1..Len(cl.primary_concepts)}
InterCount(concepts, cl) == Cardinality(FoldedDocNames(concepts) \cap FoldedClusterNames(cl))
UnionCount(concepts, cl) == Cardinality(FoldedDocNames(concepts) \cup FoldedClusterNames(cl))
ClaimEligible(concepts, suggested, cl) ==
    \/ Lower(cl.name) = Lower(suggested)
    \/ /\ UnionCount(concepts, cl) > 0
       /\ 10 * InterCount(concepts, cl) >= 3 * UnionCount(concepts, cl)
\* the overlap ratio of a compared with that of b: "gt", "eq" or "lt"
RatioOrder(concepts, a, b) ==
    LET ua == IF UnionCount(concepts, a) = 0 THEN 1 ELSE UnionCount(concepts, a)
        ub == IF UnionCount(concepts, b) = 0 THEN 1 ELSE UnionCount(concepts, b)
        l == InterCount(concepts, a) * ub
        r == InterCount(concepts, b) * ua
    IN  IF l > r THEN "gt" ELSE IF l = r THEN "eq" ELSE "lt"

\* C15: find_best_cluster returns a cluster only if its name equals
\* suggested_name case-insensitively or its overlap ratio is at least 0.3;
\* among the eligible clusters it returns the one of highest overlap ratio,
\* then larger doc_count, then lowest cluster_id; it returns none when no
\* cluster is eligible or the registry is empty.
C15_FindBestCluster ==
    call.op = "find_best_cluster" =>
        LET reg == call.existing
            elig == {c \in DOMAIN reg : ClaimEligible(call.concepts, call.name, reg[c])}
        IN  /\ (call.found = None) <=> (elig = {})
            /\ call.found # None =>
                /\ call.found \in elig
                /\ \A o \in elig \ {call.found} :
                    LET ord == RatioOrder(call.concepts, reg[call.found], reg[o])
                    IN  \/ ord = "gt"
                        \/ ord = "eq" /\ reg[call.found].doc_count > reg[o].doc_count
                        \/ /\ ord = "eq"
                           /\ reg[call.found].doc_count = reg[o].doc_count
                           /\ call.found < o

\* two eligible clusters of equal overlap ratio: the one of larger doc_count,
\* which has the higher id, is returned
C15_Witness ==
    /\ call.op = "find_best_cluster"
    /\ call.found # None
    /\ \E o \in DOMAIN call.existing :
        /\ o < call.found
        /\ ClaimEligible(call.concepts, call.name, call.existing[o])
        /\ RatioOrder(call.concepts, call.existing[call.found], call.existing[o]) = "eq"
        /\ call.existing[o].doc_count < call.existing[call.found].doc_count
        /\ InterCount(call.concepts, call.existing[o]) > 0

\* C16: create_cluster returns max(existing ids) + 1, and 1 on an empty
\* registry; the new cluster is inserted into the caller's registry with
\* doc_ids = [doc_id], doc_count = 1 and primary_concepts equal to the names
\* of the at most 5 highest-confidence concepts; every pre-existing cluster
\* is left unchanged.
C16_CreateCluster ==
    call.op = "create_cluster" =>
        LET old == call.existing
            new == call.clusters
            cs == call.concepts
            made == new[call.cluster_id]
            kept == {i \in 1..Len(cs) : cs[i].name \in SeqToSet(made.primary_concepts)}
        IN  /\ DOMAIN old = {} => call.cluster_id = 1
            /\ DOMAIN old # {} =>
                /\ call.cluster_id - 1 \in DOMAIN old
                /\ \A c \in DOMAIN old : c < call.cluster_id
            /\ DOMAIN new = DOMAIN old \cup {call.cluster_id}
            /\ \A c \in DOMAIN old : new[c] = old[c]
            /\ made.id = call.cluster_id
            /\ made.name = call.name
            /\ made.doc_ids = <<call.doc_id>>
            /\ made.doc_count = 1
            /\ Len(made.primary_concepts) = (IF Len(cs) < 5 THEN Len(cs) ELSE 5)
            /\ Cardinality(kept) = Len(made.primary_concepts)
            /\ \A i \in kept, j \in (1..Len(cs)) \ kept :
                    cs[i].confidence >= cs[j].confidence

\* a cluster created from more than five concepts in a registry whose ids
\* have a gap below the highest one
C16_Witness ==
    /\ call.op = "create_cluster"
    /\ Len(call.concepts) > 5
    /\ DOMAIN call.existing = {1, 3}
    /\ call.cluster_id = 4
    /\ cGit \notin SeqToSet(call.clusters[4].primary_concepts)

\* C17: add_to_cluster is idempotent: a second add_to_cluster(c, d) leaves the
\* registry exactly as the first call left it (d once in doc_ids, doc_count
\* unchanged), and a first call with d absent appends d at the end of doc_ids
\* and raises doc_count by exactly one.
C17_AddToClusterIdempotent ==
    (call.op = "add_to_cluster" /\ call.cluster_id \in DOMAIN call.existing) =>
        LET before == call.existing[call.cluster_id]
            after == call.once[call.cluster_id]
        IN  /\ call.twice = call.once
            /\ Occurrences(after, call.doc_id) = 1
            /\ call.doc_id \notin SeqToSet(before.doc_ids) =>
                /\ after.doc_ids = Append(before.doc_ids, call.doc_id)
                /\ after.doc_count = before.doc_count + 1

\* the same statement for the registries in which every doc_count is the
\* length of doc_ids
C17_ConsistentRegistry ==
    (\A c \in DOMAIN call.existing :
        call.existing[c].doc_count = Len(call.existing[c].doc_ids))
        => C17_AddToClusterIdempotent

\* the same step inside the handlers: a successful upload that find_best_cluster
\* places in an existing cluster not yet listing the document appends it to
\* doc_ids and raises doc_count by one
C17_UploadRaisesDocCount ==
    [][(/\ \E r \in Reqs : pc[r] = "extract" /\ pc'[r] = "idle"
        /\ last'.op \in UploadOps
        /\ last'.status = 200
        /\ last'.cluster_id \in DOMAIN clusters
        /\ last'.doc_id \notin SeqToSet(clusters[last'.cluster_id].doc_ids))
        => /\ clusters'[last'.cluster_id].doc_ids
                = Append(clusters[last'.cluster_id].doc_ids, last'.doc_id)
           /\ clusters'[last'.cluster_id].doc_count
                = clusters[last'.cluster_id].doc_count + 1]_vars

\* the membership state of a live document
Assigned(meta, doc_id) == doc_id \in DOMAIN meta /\ meta[doc_id].cluster_id # None

\* C19: membership only moves Unclustered -> Assigned and Assigned -> Assigned:
\* once a live document has been assigned to a cluster, no operation (not
\* update_document_metadata with any cluster_id value either) returns it to
\* Unclustered while the document still exists.
C19_AssignedStaysAssigned ==
    [][\A d \in DOMAIN documents \cap DOMAIN documents' :
            Assigned(metadata, d) => Assigned(metadata', d)]_vars

\* C20: a cluster's primary_concepts and id never change after the cluster is
\* created: uploads that add members, reassignments, delete_document,
\* merge_duplicate_documents and update_cluster all leave them unchanged, and
\* update_cluster also leaves doc_ids and doc_count unchanged.
C20_ClusterIdentityFixed ==
    [][\A c \in DOMAIN clusters :
        /\ c \in DOMAIN clusters'
        /\ clusters'[c].id = clusters[c].id
        /\ clusters'[c].primary_concepts = clusters[c].primary_concepts
        /\ last'.op = "update_cluster" =>
            /\ clusters'[c].doc_ids = clusters[c].doc_ids
            /\ clusters'[c].doc_count = clusters[c].doc_count]_vars

\* update_cluster has renamed a cluster that has concepts and a member
C20_Witness ==
    /\ last.op = "update_cluster"
    /\ last.status = 200
    /\ \E c \in DOMAIN clusters :
        /\ clusters[c].name = nDockerLc
        /\ clusters[c].primary_concepts = <<cDocker>>
        /\ clusters[c].doc_ids # <<>>

\* C21: the cluster registry only grows: no handler removes a cluster (one
\* whose last document was deleted or reassigned stays, with empty doc_ids),
\* and every cluster id allocated is new and strictly greater than all
\* earlier cluster ids.
C21_RegistryOnlyGrows ==
    [][/\ DOMAIN clusters \subseteq DOMAIN clusters'
       /\ \A n \in DOMAIN clusters' \ DOMAIN clusters :
            \A c \in DOMAIN clusters : c < n]_vars

\* a cluster emptied by delete_document or a reassignment is still in the
\* registry when a later cluster has been created above it
C21_Witness ==
    \E c, n \in DOMAIN clusters :
        /\ c < n
        /\ clusters[c].doc_ids = <<>>
        /\ clusters[n].doc_ids # <<>>

\* every attempt of the call failed
AllAttemptsFail(outcomes) == \A i \in 1..MaxAttempts : outcomes[i].kind = "error"
\* the reply that ended the call carries no JSON: no body, or text that is none
NotValidJson(outcomes, attempts) ==
    /\ outcomes[attempts].kind = "reply"
    /\ \A i \in 1..Len(outcomes[attempts].content) :
            outcomes[attempts].content[i] \notin {"object", "bad_object", "list"}

\* C22: extract never raises to its caller and attempts the LLM call at most
\* 3 times; when all attempts fail or the reply is not valid JSON it returns
\* the fallback (concepts = [], skill_level unknown, suggested_cluster
\* General), so the upload still completes and the document is clustered
\* under the name General.
C22_ExtractNeverRaises ==
    call.op = "extract" =>
        /\ ~call.raised
        /\ call.attempts \in 1..3
        /\ \A i \in 1..(call.attempts - 1) : call.outcomes[i].kind = "error"
        /\ (AllAttemptsFail(call.outcomes) \/ NotValidJson(call.outcomes, call.attempts)) =>
            /\ call.result.concepts = <<>>
            /\ call.result.skill_level = "unknown"
            /\ call.result.suggested_cluster = nGeneral
            /\ call.upload.raised = "none"
            /\ call.upload.cluster_id \in DOMAIN call.upload.clusters
            /\ Lower(call.upload.clusters[call.upload.cluster_id].name) = Lower(nGeneral)
            /\ 2 \in SeqToSet(call.upload.clusters[call.upload.cluster_id].doc_ids)

\* three failed attempts, and the upload has created the cluster General
\* beside a cluster of another name
C22_Witness ==
    /\ call.op = "extract"
    /\ AllAttemptsFail(call.outcomes)
    /\ call.attempts = 3
    /\ DOMAIN call.existing = {1}
    /\ call.upload.cluster_id = 2
    /\ call.upload.clusters[2].name = nGeneral

\* the step is a handler's rejection: an upload refused before it asks for
\* the lock, or a 404 for an unknown doc_id or cluster_id
Rejection(ev) ==
    \/ ev.op \in UploadOps /\ ev.detail = "rejected"
    \/ /\ ev.op \in {"delete_document", "update_document_metadata", "update_cluster"}
       /\ ev.status = 404

\* C23: an upload rejected before the lock is taken (ingestion failure,
\* invalid base64, payload too large), or a delete/update on an unknown
\* doc_id or cluster_id answered with 404, leaves the vector store, documents,
\* metadata and clusters unchanged and never acquires storage_lock.
C23_RejectionChangesNothing ==
    [][Rejection(last') =>
        UNCHANGED <<vector_store, documents, metadata, clusters, storage_lock, pc>>]_vars

\* the same statement without the reassignment to an unknown cluster
C23_RejectionOfUnknownDocOrCluster ==
    [][(Rejection(last') /\ last'.detail # "cluster_not_found") =>
        UNCHANGED <<vector_store, documents, metadata, clusters, storage_lock, pc>>]_vars

\* the clusters of a registry that list doc_id
ListedIn(cls, doc_id) == {c \in DOMAIN cls : doc_id \in SeqToSet(cls[c].doc_ids)}
\* doc_id is stored everywhere and in exactly one cluster, or nowhere
AllOrNothing(store, docs, meta, cls, doc_id) ==
    \/ /\ doc_id \in DOMAIN store
       /\ doc_id \in DOMAIN docs
       /\ doc_id \in DOMAIN meta
       /\ Cardinality(ListedIn(cls, doc_id)) = 1
    \/ /\ doc_id \notin DOMAIN store
       /\ doc_id \notin DOMAIN docs
       /\ doc_id \notin DOMAIN meta
       /\ ListedIn(cls, doc_id) = {}

\* C24: an upload is all-or-nothing: if the handler fails after
\* vector_store.add_document has run, the document is present in the vector
\* store, documents, metadata and exactly one cluster, or in none of them.
C24_UploadAllOrNothing ==
    [][\A r \in Reqs :
        (pc[r] = "extract" /\ pc'[r] = "idle" /\ last'.status # 200) =>
            \A d \in (DOMAIN vector_store' \ DOMAIN vector_store)
                        \cup (IF req[r].doc_id # None THEN {req[r].doc_id} ELSE {}) :
                AllOrNothing(vector_store', documents', metadata', clusters', d)]_vars

\* C25: whenever no request handler is in progress, documents and metadata
\* have exactly the same set of doc_id keys, in every state reachable by any
\* interleaving of uploads, delete_document and merge_duplicate_documents.
C25_DocumentsAndMetadataSameKeys ==
    AllIdle => DOMAIN documents = DOMAIN metadata

\* C26: whenever no request is in progress the ids held by the vector store
\* are the keys of documents: every document deleted through delete_document
\* or merge_duplicate_documents is also removed from the vector store.
C26_VectorsAreLiveDocuments ==
    AllIdle => DOMAIN vector_store = DOMAIN documents

\* C26 for the deletions alone: a step of delete_document or
\* merge_duplicate_documents leaves no vector of a document it deleted
C26_DeletedHaveNoVector ==
    [][\A d \in DOMAIN documents \ DOMAIN documents' : d \notin DOMAIN vector_store']_vars

\* C27: whenever no request is in progress, metadata and registry agree on
\* membership: for every live document d and cluster c,
\* metadata[d].cluster_id = c if and only if d is in clusters[c].doc_ids.
C27_MetadataAgreesWithRegistry ==
    AllIdle =>
        \A d \in DOMAIN documents \cap DOMAIN metadata, c \in DOMAIN clusters :
            (metadata[d].cluster_id = c) <=> (d \in SeqToSet(clusters[c].doc_ids))

\* C28: whenever a mutating handler returns, with success or with an error,
\* the last persisted snapshot equals the in-memory documents, metadata and
\* clusters: no in-memory mutation is left unpersisted.
C28_ReturnLeavesNothingUnsaved ==
    [][last'.status # 0 => saved' = Snapshot(documents', metadata', clusters')]_vars

\* C28 for the handlers that return with success
C28_SuccessLeavesNothingUnsaved ==
    [][last'.status = 200 => saved' = Snapshot(documents', metadata', clusters')]_vars

\* C29: no two clusters in the registry ever have the same name under
\* case-insensitive comparison, after any sequence of uploads and
\* update_cluster renames.
C29_ClusterNamesDistinct ==
    \A a, b \in DOMAIN clusters :
        a # b => Lower(clusters[a].name) # Lower(clusters[b].name)

\* C29 for the steps of the other handlers: none but update_cluster gives two
\* clusters the same name, unless two clusters of equal names are there already
C29_OnlyRenameDuplicates ==
    [][(C29_ClusterNamesDistinct /\ last'.op # "update_cluster")
        => C29_ClusterNamesDistinct']_vars

\* C30: storage_lock is released on every exit path of every upload handler,
\* also when the handler raises inside the locked section, and, each
\* extraction call terminating, every upload request waiting for
\* storage_lock eventually acquires it.
C30_LockReleasedAndAcquired ==
    /\ [][\A r \in Reqs :
            (pc[r] = "extract" /\ pc'[r] = "idle") => storage_lock' = 0]_vars
    /\ [](\A r \in Reqs : (storage_lock = r) <=> (pc[r] = "extract"))
    /\ \A r \in Reqs : (pc[r] = "lock") ~> (storage_lock = r)

\* a request waits for the lock while the holder is at its last attempt, after
\* an earlier upload has raised inside the locked section
C30_Witness ==
    \E r, h \in Reqs :
        /\ pc[r] = "lock"
        /\ storage_lock = h
        /\ h # r
        /\ req[h].attempt = MaxAttempts
        /\ DOMAIN documents # DOMAIN metadata

\* the token is well formed and signed under SECRET_KEY, and names a user
SignedForUser(c) ==
    /\ Len(c.token) = 2
    /\ c.token[1].kind = "hex"
    /\ c.token[2] = [key |-> SecretKey, msg |-> c.token[1].bytes]
    /\ c.token[1].bytes.kind = "json"
    /\ c.token[1].bytes.data.kind = "object"
    /\ c.token[1].bytes.data.sub \in c.users

\* C31: get_current_user accepts a token only if its signature is the HMAC of
\* its payload under SECRET_KEY, its exp is not earlier than the current time
\* and its sub names a user in users; every other token is rejected with 401;
\* a token issued by create_access_token for an existing user is accepted
\* until TOKEN_EXPIRE_MINUTES have elapsed.
C31_TokenAcceptedOnlyIfValid ==
    call.op = "get_current_user" =>
        /\ call.answer.status \in {200, 401}
        /\ call.answer.status = 200 <=>
            /\ SignedForUser(call)
            /\ call.token[1].bytes.data.exp \in Int
            /\ call.token[1].bytes.data.exp # None
            /\ call.token[1].bytes.data.exp >= call.now
        /\ (/\ call.issued_at # None
            /\ call.token[1].bytes.data.sub \in call.users
            /\ call.now - call.issued_at <= TokenExpireMinutes)
            => call.answer.status = 200

\* C31 with the tokens whose exp is absent or 0 set aside
C31_TokenWithExp ==
    (/\ call.op = "get_current_user"
     /\ SignedForUser(call) => call.token[1].bytes.data.exp \notin {None, 0})
        => C31_TokenAcceptedOnlyIfValid

\* startup found no users: neither in the database nor, failing that, in the file
NoUsersLoaded(c) ==
    IF ~c.init_db_raises /\ ~c.db_load.raises
    THEN c.db_load.users = {}
    ELSE ~c.file_load.raises /\ c.file_load.users = {}

\* C32: startup_event always completes with a non-empty users map: with no
\* users loaded it creates the default user, and when saving that user to the
\* database fails it saves to file storage instead of failing startup.
C32_StartupAlwaysCompletes ==
    call.op = "startup_event" =>
        /\ ~call.answer.raised
        /\ call.answer.users # {}
        /\ NoUsersLoaded(call.boot) => "test" \in call.answer.users
        /\ (NoUsersLoaded(call.boot) /\ call.boot.save_raises) => call.answer.file_saves = 1

\* C32, the part that holds: a startup that completes has users, and the
\* default user when none were loaded
C32_CompletedStartupHasUsers ==
    (call.op = "startup_event" /\ ~call.answer.raised) =>
        /\ call.answer.users # {}
        /\ NoUsersLoaded(call.boot) => "test" \in call.answer.users

\* C32: with a working file load and a working save, startup completes
C32_CompletesWhenSaveWorks ==
    (/\ call.op = "startup_event"
     /\ ~call.boot.file_load.raises
     /\ ~call.boot.save_raises) => ~call.answer.raised

\* C33: after _cache_result(h, r), _get_cached_result(h) returns the
\* serialized result r and not the empty string, and extract called again
\* with the same content and source_type does not call the model again.
C33_CacheReturnsStoredResult ==
    /\ (call.op = "_get_cached_result" /\ call.h \in DOMAIN call.stored) =>
            (call.answer = call.stored[call.h] /\ call.answer # "")
    /\ (call.op = "extract" /\ call.again) => call.llm_attempts = 0

\* C33, what the code does instead: _get_cached_result always returns the
\* empty string, and every extract calls the model at least once
C33_CacheNeverHits ==
    /\ call.op = "_get_cached_result" => call.answer = ""
    /\ call.op = "extract" => call.llm_attempts >= 1
    /\ \A x \in DOMAIN call.memo : call.memo[x] = ""

====
